---- MODULE Spec2Model ----
(***************************************************************************)
(* HDR export pipeline of deck.gl: the HDRRenderLoop frame sequencer       *)
(* (hdr-render-loop.ts) and the GPU readback utilities (gpu-readback).     *)
(*                                                                         *)
(* JavaScript is single threaded and runs every task to completion: the    *)
(* variable cur names the task that is executing synchronous code.  A task *)
(* gives the thread up only at an await, at a yield or when it completes.  *)
(***************************************************************************)
EXTENDS Integers, Sequences, FiniteSets, TLC

(* ---------------------------------------------------------------------- *)
(* Bounds                                                                 *)
(* ---------------------------------------------------------------------- *)
MaxFrame == 1
ExporterWidth == 1
ExporterHeight == 2

Runs == {"g1", "g2"}
\* calls of renderFrame, and all the asynchronous tasks of the render loop
Frames == {"f1"}
Tasks == Runs \cup Frames
NoTask == "none"
UNDEF == "undefined"
NULL == "null"
HdrFb == "hdrFb"
UserFb == "userFb"
UserCallback == <<"userOnAfterRender">>
HookNames == {"onFrameStart", "onUpdateFrame", "onFrameComplete"}
\* options.startFrame: <<>> when the option is not given, <<n>> otherwise
StartFrames == {<<>>, <<1>>}
EndFrames == 0 .. MaxFrame

VARIABLES
    isRendering,          \* HDRRenderLoop._isRendering
    originalFramebuffer,  \* HDRRenderLoop._originalFramebuffer
    deckFb,               \* deck.props._framebuffer
    deckOAR,              \* deck.props.onAfterRender
    pendingDraws,         \* redraws forced by deck.redraw() whose after-render signal is still to come
    hooks,                \* which of the optional hooks the props supplied
    cur,                  \* the task that is executing synchronous code
    pc,                   \* position of each renderSequence generator
    opts,                 \* the options each generator was created with
    frame,                \* loop variable of each generator
    err,                  \* why a generator left its try block
    outcome,              \* how a generator ended
    renderPromise,        \* state of the promise of the current _renderToHDR call
    savedOAR,             \* originalOnAfterRender captured by the current _renderToHDR call
    readbacks,            \* exporter.readPixelsAsync() calls in flight, per installing generator
    pixels,               \* const pixels of the current frame
    flippedPixels,        \* const flippedPixels of the current frame
    yielded,              \* results handed to the consumer, in order
    entryFb,              \* deck.props._framebuffer as read by the run's _beginExport
    log,                  \* observable effects of each generator, in order
    rbIn,                 \* readPixelsAsync: device, source and options of the call
    rbPc,                 \* readPixelsAsync: position of the call
    rbBuffer,             \* readPixelsWebGPU: state of readbackBuffer
    rbTempFb,             \* readPixelsWebGL: state of the temporary framebuffer
    rbOps,                \* device operations the call has issued, in order
    rbData,               \* const data of the call
    rbOut,                \* what the call returned
    flipCall,             \* flipPixelsVertically: arguments and results of the calls followed
    exporter,             \* the HDRExporter followed, its device and the device operations issued
    half,                 \* floatToHalf: the value converted, the bits stored and the result
    exr,                  \* writeEXR: arguments and result of the call followed
    textures              \* texture.ts: internalTextures and the textures of the device

vars == <<isRendering, originalFramebuffer, deckFb, deckOAR, pendingDraws, hooks, cur,
          pc, opts, frame, err, outcome, renderPromise, savedOAR, readbacks,
          pixels, flippedPixels, yielded, entryFb, log,
          rbIn, rbPc, rbBuffer, rbTempFb, rbOps, rbData, rbOut, flipCall, exporter,
          half, exr, textures>>

libVars == <<half, exr, textures>>

utilVars == <<flipCall, exporter, half, exr, textures>>

rbVars == <<rbIn, rbPc, rbBuffer, rbTempFb, rbOps, rbData, rbOut>>

loopAllVars == <<isRendering, originalFramebuffer, deckFb, deckOAR, pendingDraws, hooks, cur,
                 pc, opts, frame, err, outcome, renderPromise, savedOAR, readbacks,
                 pixels, flippedPixels, yielded, entryFb, log>>

(* ---------------------------------------------------------------------- *)
(* Pixel buffers: typed arrays are functions on 0 .. length-1             *)
(* ---------------------------------------------------------------------- *)
NoPixels == <<>>

\* What exporter.readPixelsAsync() resolves with: one distinct sample per element.
RawPixels == [i \in 0 .. ExporterWidth * ExporterHeight * 4 - 1 |-> i + 1]

\* data.length
Length(a) == Cardinality(DOMAIN a)

\* data.subarray(begin, end) for 0 <= begin <= end: the elements begin .. end-1 that
\* exist, indexed from 0
Subarray(a, begin, end) ==
    LET last == IF end < Length(a) THEN end ELSE Length(a)
    IN [i \in 0 .. (last - begin) - 1 |-> a[begin + i]]

\* target.set(source, offset): a RangeError when the source does not fit
SetThrows(target, source, offset) == offset + Length(source) > Length(target)

SetAt(target, source, offset) ==
    [i \in DOMAIN target |->
        IF i >= offset /\ i < offset + Length(source) THEN source[i - offset] ELSE target[i]]

\* const dstOffset = (height - 1 - y) * rowSize
FlipDstOffset_SameRow(y, height, rowSize) == y * rowSize

FlipDstOffset(y, height, rowSize) == (height - 1 - y) * rowSize

\* the loop of flipPixelsVertically from row y on
RECURSIVE FlipRows(_, _, _, _, _)
FlipRows(data, flipped, y, height, rowSize) ==
    IF y >= height
    THEN [threw |-> FALSE, flipped |-> flipped]
    ELSE LET source == Subarray(data, y * rowSize, y * rowSize + rowSize)
             dstOffset == FlipDstOffset(y, height, rowSize)
         IN IF SetThrows(flipped, source, dstOffset)
            THEN [threw |-> TRUE, flipped |-> flipped]
            ELSE FlipRows(data, SetAt(flipped, source, dstOffset), y + 1, height, rowSize)

\* new (data.constructor)(data.length), then the loop over the rows
FlipCall(data, width, height, channels) ==
    FlipRows(data, [i \in DOMAIN data |-> 0], 0, height, width * channels)

\* flipPixelsVertically(data, width, height, channels) when it returns
flipPixelsVertically(data, width, height, channels) ==
    FlipCall(data, width, height, channels).flipped

\* the flipped image of what the readback resolves with
FlippedRawPixels == flipPixelsVertically(RawPixels, ExporterWidth, ExporterHeight, 4)

\* The value of writeEXR(flippedPixels, exporter.width, exporter.height, exrOptions)
\* as the render loop hands it on: the encoding of that image at those dimensions.
EncodedFrame(px, width, height) == <<"exr", width, height, px>>

(* ---------------------------------------------------------------------- *)
(* Helpers                                                                *)
(* ---------------------------------------------------------------------- *)
Event(r, kind) == log' = [log EXCEPT ![r] = Append(@, <<kind, frame[r]>>)]

Events2(r, k1, k2) ==
    log' = [log EXCEPT ![r] = Append(Append(@, <<k1, frame[r]>>), <<k2, frame[r]>>)]

Goto(r, p) == pc' = [pc EXCEPT ![r] = p] /\ UNCHANGED <<err, frame>>

\* An exception inside the try block: control transfers to the finally block.
Abort_ContinueWithNextFrame(r, why) ==
    /\ pc' = [pc EXCEPT ![r] = "loop"]
    /\ err' = [err EXCEPT ![r] = why]
    /\ frame' = [frame EXCEPT ![r] = @ + 1]

Abort(r, why) ==
    /\ pc' = [pc EXCEPT ![r] = "finally"]
    /\ err' = [err EXCEPT ![r] = why]
    /\ UNCHANGED frame

\* const startFrame = options.startFrame ?? 0
StartFrameOf(o) == IF o.startFrame = <<>> THEN 0 ELSE o.startFrame[1]

\* if (this._isRendering)
AlreadyInProgress_Never == FALSE

AlreadyInProgress == isRendering

\* frame <= endFrame
LoopCond_Exclusive(f, e) == f < e

LoopCond(f, e) == f <= e

\* the pixels argument of this._onFrameComplete?.(frame, pixels)
OnFrameCompleteArg_Flipped(r) ==
    flipPixelsVertically(pixels[r], ExporterWidth, ExporterHeight, 4)

OnFrameCompleteArg(r) == pixels[r]

(* ---------------------------------------------------------------------- *)
(* Initial state: a constructed HDRRenderLoop on an idle deck             *)
(* ---------------------------------------------------------------------- *)
LoopInit ==
    /\ isRendering = FALSE
    /\ originalFramebuffer = NULL
    /\ deckFb \in {NULL, UserFb}
    /\ deckOAR = UserCallback
    /\ pendingDraws = 0
    /\ hooks \in SUBSET HookNames
    /\ cur = NoTask
    /\ pc = [r \in Tasks |-> "none"]
    /\ opts = [r \in Tasks |-> [startFrame |-> <<>>, endFrame |-> 0]]
    /\ frame = [r \in Tasks |-> 0]
    /\ err = [r \in Tasks |-> "none"]
    /\ outcome = [r \in Tasks |-> "none"]
    /\ renderPromise = [r \in Tasks |-> "none"]
    /\ savedOAR = [r \in Tasks |-> <<UNDEF>>]
    /\ readbacks = [r \in Tasks |-> 0]
    /\ pixels = [r \in Tasks |-> NoPixels]
    /\ flippedPixels = [r \in Tasks |-> NoPixels]
    /\ yielded = [r \in Tasks |-> <<>>]
    /\ entryFb = [r \in Tasks |-> UNDEF]
    /\ log = [r \in Tasks |-> <<>>]

\* no readPixelsAsync call is being followed
RbIdle ==
    /\ rbIn = [device |-> "webgl", source |-> "framebuffer", format |-> "rgba16float",
               texWidth |-> 1, texHeight |-> 1,
               x |-> <<>>, y |-> <<>>, width |-> <<>>, height |-> <<>>]
    /\ rbPc = "idle"
    /\ rbBuffer = "none"
    /\ rbTempFb = "none"
    /\ rbOps = <<>>
    /\ rbData = <<>>
    /\ rbOut = <<>>

\* no flipPixelsVertically, floatToHalf or writeEXR call and no HDRExporter is
\* being followed, and no texture exists
UtilIdle ==
    /\ flipCall = [pc |-> "idle"]
    /\ exporter = [pc |-> "idle"]
    /\ half = [pc |-> "idle"]
    /\ exr = [pc |-> "idle"]
    /\ textures = [pc |-> "idle"]

Init == LoopInit /\ RbIdle /\ UtilIdle

loopVars == <<isRendering, originalFramebuffer>>
deckVars == <<deckFb, deckOAR, pendingDraws>>
frameVars == <<renderPromise, savedOAR, readbacks, pixels, flippedPixels>>

(* ---------------------------------------------------------------------- *)
(* The consumer of the generators                                         *)
(* ---------------------------------------------------------------------- *)
\* renderLoop.renderSequence(options): creates the generator, runs nothing.
CallRenderSequence(r, s, e) ==
    /\ cur = NoTask
    /\ pc[r] = "none"
    /\ pc' = [pc EXCEPT ![r] = "created"]
    /\ opts' = [opts EXCEPT ![r] = [startFrame |-> s, endFrame |-> e]]
    /\ UNCHANGED <<loopVars, deckVars, hooks, cur, frame, err, outcome, frameVars,
                   yielded, entryFb, log>>
    /\ UNCHANGED <<rbVars, utilVars>>

\* generator.next() on a generator that has not started: the body runs from the top.
FirstNext(r) ==
    /\ cur = NoTask
    /\ pc[r] = "created"
    /\ cur' = r
    /\ pc' = [pc EXCEPT ![r] = "check"]
    /\ frame' = [frame EXCEPT ![r] = StartFrameOf(opts[r])]
    /\ UNCHANGED <<loopVars, deckVars, hooks, opts, err, outcome, frameVars,
                   yielded, entryFb, log>>
    /\ UNCHANGED <<rbVars, utilVars>>

\* generator.next() on a generator suspended at the yield: frame++ and the loop test.
ResumeNext(r) ==
    /\ cur = NoTask
    /\ pc[r] = "suspended"
    /\ cur' = r
    /\ pc' = [pc EXCEPT ![r] = "loop"]
    /\ frame' = [frame EXCEPT ![r] = @ + 1]
    /\ UNCHANGED <<loopVars, deckVars, hooks, opts, err, outcome, frameVars,
                   yielded, entryFb, log>>
    /\ UNCHANGED <<rbVars, utilVars>>

\* generator.return() / generator.throw() at the yield: the finally block runs.
CancelAtYield(r, how) ==
    /\ cur = NoTask
    /\ pc[r] = "suspended"
    /\ cur' = r
    /\ pc' = [pc EXCEPT ![r] = "finally"]
    /\ err' = [err EXCEPT ![r] = how]
    /\ UNCHANGED <<loopVars, deckVars, hooks, opts, frame, outcome, frameVars,
                   yielded, entryFb, log>>
    /\ UNCHANGED <<rbVars, utilVars>>

\* generator.return() / generator.throw() before the first next(): the body never runs.
CancelBeforeStart(r) ==
    /\ cur = NoTask
    /\ pc[r] = "created"
    /\ pc' = [pc EXCEPT ![r] = "done"]
    /\ outcome' = [outcome EXCEPT ![r] = "cancelled"]
    /\ UNCHANGED <<loopVars, deckVars, hooks, cur, opts, frame, err, frameVars,
                   yielded, entryFb, log>>
    /\ UNCHANGED <<rbVars, utilVars>>

(* ---------------------------------------------------------------------- *)
(* renderSequence, statement by statement                                 *)
(* ---------------------------------------------------------------------- *)
\* throw new Error('... already in progress'): before the try, so no finally.
RejectStarted_InsideTry(r) ==
    /\ cur = r
    /\ pc[r] = "check"
    /\ AlreadyInProgress
    /\ deckFb' = originalFramebuffer
    /\ originalFramebuffer' = NULL
    /\ isRendering' = FALSE
    /\ pc' = [pc EXCEPT ![r] = "done"]
    /\ outcome' = [outcome EXCEPT ![r] = "rejected"]
    /\ cur' = NoTask
    /\ UNCHANGED <<deckOAR, pendingDraws, hooks, opts, frame, err, frameVars,
                   yielded, entryFb, log>>
    /\ UNCHANGED <<rbVars, utilVars>>

RejectStarted(r) ==
    /\ cur = r
    /\ pc[r] = "check"
    /\ AlreadyInProgress
    /\ pc' = [pc EXCEPT ![r] = "done"]
    /\ outcome' = [outcome EXCEPT ![r] = "rejected"]
    /\ cur' = NoTask
    /\ UNCHANGED <<loopVars, deckVars, hooks, opts, frame, err, frameVars,
                   yielded, entryFb, log>>
    /\ UNCHANGED <<rbVars, utilVars>>

\* this._isRendering = true
EnterExporting(r) ==
    /\ cur = r
    /\ pc[r] = "check"
    /\ ~AlreadyInProgress
    /\ isRendering' = TRUE
    /\ Goto(r, "begin")
    /\ UNCHANGED <<originalFramebuffer, deckVars, hooks, cur, opts, outcome, frameVars,
                   yielded, entryFb, log>>
    /\ UNCHANGED <<rbVars, utilVars>>

\* this._beginExport()
BeginExport(r) ==
    /\ cur = r
    /\ pc[r] = "begin"
    /\ originalFramebuffer' = deckFb
    /\ entryFb' = [entryFb EXCEPT ![r] = deckFb]
    /\ deckFb' = HdrFb
    /\ Goto(r, "loop")
    /\ Event(r, "beginExport")
    /\ UNCHANGED <<isRendering, deckOAR, pendingDraws, hooks, cur, opts, outcome,
                   frameVars, yielded>>
    /\ UNCHANGED <<rbVars, utilVars>>

\* for (...; frame <= endFrame; ...): falling out of the loop leaves the try normally.
LoopTest(r) ==
    /\ cur = r
    /\ pc[r] = "loop"
    /\ IF LoopCond(frame[r], opts[r].endFrame)
       THEN Goto(r, "frameStart")
       ELSE /\ pc' = [pc EXCEPT ![r] = "finally"]
            /\ err' = [err EXCEPT ![r] = "completed"]
            /\ UNCHANGED frame
    /\ UNCHANGED <<loopVars, deckVars, hooks, cur, opts, outcome, frameVars,
                   yielded, entryFb, log>>
    /\ UNCHANGED <<rbVars, utilVars>>

\* this._onFrameStart?.(frame)
OnFrameStart(r, throws) ==
    /\ cur = r
    /\ pc[r] = "frameStart"
    /\ IF "onFrameStart" \in hooks
       THEN /\ Event(r, "onFrameStart")
            /\ IF throws THEN Abort(r, "onFrameStart threw") ELSE Goto(r, "update")
       ELSE /\ ~throws
            /\ Goto(r, "update")
            /\ UNCHANGED log
    /\ UNCHANGED <<loopVars, deckVars, hooks, cur, opts, outcome, frameVars,
                   yielded, entryFb>>
    /\ UNCHANGED <<rbVars, utilVars>>

\* if (this._onUpdateFrame) await this._onUpdateFrame(frame, this.deck)
OnUpdateFrame(r, throws) ==
    /\ cur = r
    /\ pc[r] = "update"
    /\ IF "onUpdateFrame" \in hooks
       THEN /\ Event(r, "onUpdateFrame")
            /\ IF throws
               THEN Abort(r, "onUpdateFrame threw") /\ UNCHANGED cur
               ELSE Goto(r, "awaitUpdate") /\ cur' = NoTask
       ELSE /\ ~throws
            /\ Goto(r, "render")
            /\ UNCHANGED <<log, cur>>
    /\ UNCHANGED <<loopVars, deckVars, hooks, opts, outcome, frameVars,
                   yielded, entryFb>>
    /\ UNCHANGED <<rbVars, utilVars>>

\* the promise returned by onUpdateFrame settles and the generator resumes
UpdateSettles(r, rejects) ==
    /\ cur = NoTask
    /\ pc[r] = "awaitUpdate"
    /\ cur' = r
    /\ IF rejects
       THEN Abort(r, "onUpdateFrame rejected") /\ Event(r, "updateRejected")
       ELSE Goto(r, "render") /\ Event(r, "updateDone")
    /\ UNCHANGED <<loopVars, deckVars, hooks, opts, outcome, frameVars,
                   yielded, entryFb>>
    /\ UNCHANGED <<rbVars, utilVars>>

\* const pixels = await this._renderToHDR(): the promise executor runs synchronously.
RenderToHDR(r) ==
    /\ cur = r
    /\ pc[r] = "render"
    /\ savedOAR' = [savedOAR EXCEPT ![r] = deckOAR]
    /\ deckFb' = HdrFb
    /\ deckOAR' = <<"callback", r>>
    /\ pendingDraws' = pendingDraws + 1
    /\ renderPromise' = [renderPromise EXCEPT ![r] = "pending"]
    /\ cur' = NoTask
    /\ Goto(r, "awaitRender")
    /\ Events2(r, "redirect", "redraw")
    /\ UNCHANGED <<loopVars, hooks, opts, outcome, readbacks, pixels, flippedPixels,
                   yielded, entryFb>>
    /\ UNCHANGED <<rbVars, utilVars>>

\* The deck finishes a forced redraw and calls props.onAfterRender.  The one-time
\* callback of _renderToHDR starts exporter.readPixelsAsync() and awaits it.
DeckAfterRender ==
    /\ cur = NoTask
    /\ pendingDraws > 0
    /\ pendingDraws' = pendingDraws - 1
    /\ IF deckOAR = UserCallback
       THEN UNCHANGED <<readbacks, log>>
       ELSE /\ readbacks' = [readbacks EXCEPT ![deckOAR[2]] = @ + 1]
            /\ Events2(deckOAR[2], "afterRender", "readStart")
    /\ UNCHANGED <<loopVars, deckFb, deckOAR, hooks, cur, pc, opts, frame, err, outcome,
                   renderPromise, savedOAR, pixels, flippedPixels, yielded, entryFb>>
    /\ UNCHANGED <<rbVars, utilVars>>

\* exporter.readPixelsAsync() settles inside the callback: on success the callback
\* restores onAfterRender and resolves; on failure it only rejects.
ReadbackSettles(r, fails) ==
    /\ cur = NoTask
    /\ readbacks[r] > 0
    /\ readbacks' = [readbacks EXCEPT ![r] = @ - 1]
    /\ IF fails
       THEN /\ renderPromise' = [renderPromise EXCEPT ![r] =
                                    IF @ = "pending" THEN "rejected" ELSE @]
            /\ Event(r, "readFailed")
            /\ UNCHANGED <<deckOAR, pixels>>
       ELSE /\ deckOAR' = savedOAR[r]
            /\ renderPromise' = [renderPromise EXCEPT ![r] =
                                    IF @ = "pending" THEN "resolved" ELSE @]
            /\ pixels' = [pixels EXCEPT ![r] =
                             IF renderPromise[r] = "pending" THEN RawPixels ELSE @]
            /\ Event(r, "readDone")
    /\ UNCHANGED <<loopVars, deckFb, pendingDraws, hooks, cur, pc, opts, frame, err,
                   outcome, savedOAR, flippedPixels, yielded, entryFb>>
    /\ UNCHANGED <<rbVars, utilVars>>

\* the await of _renderToHDR() resumes the generator
ResumeRender(r) ==
    /\ cur = NoTask
    /\ pc[r] = "awaitRender"
    /\ renderPromise[r] \in {"resolved", "rejected"}
    /\ cur' = r
    /\ IF renderPromise[r] = "resolved"
       THEN Goto(r, "frameComplete")
       ELSE Abort(r, "readback failed")
    /\ UNCHANGED <<loopVars, deckVars, hooks, opts, outcome, frameVars,
                   yielded, entryFb, log>>
    /\ UNCHANGED <<rbVars, utilVars>>

\* this._onFrameComplete?.(frame, pixels)
OnFrameComplete(r, throws) ==
    /\ cur = r
    /\ pc[r] = "frameComplete"
    /\ IF "onFrameComplete" \in hooks
       THEN /\ log' = [log EXCEPT ![r] =
                          Append(@, <<"onFrameComplete", frame[r], OnFrameCompleteArg(r)>>)]
            /\ IF throws THEN Abort(r, "onFrameComplete threw") ELSE Goto(r, "flip")
       ELSE /\ ~throws
            /\ Goto(r, "flip")
            /\ UNCHANGED log
    /\ UNCHANGED <<loopVars, deckVars, hooks, cur, opts, outcome, frameVars,
                   yielded, entryFb>>
    /\ UNCHANGED <<rbVars, utilVars>>

\* const flippedPixels = flipPixelsVertically(pixels, exporter.width, exporter.height, 4)
Flip(r) ==
    /\ cur = r
    /\ pc[r] = "flip"
    /\ flippedPixels' = [flippedPixels EXCEPT ![r] =
                            flipPixelsVertically(pixels[r], ExporterWidth, ExporterHeight, 4)]
    /\ Goto(r, "encode")
    /\ Event(r, "flip")
    /\ UNCHANGED <<loopVars, deckVars, hooks, cur, opts, outcome, renderPromise, savedOAR,
                   readbacks, pixels, yielded, entryFb>>
    /\ UNCHANGED <<rbVars, utilVars>>

\* const exrBuffer = writeEXR(...): returns the buffer or throws (allocation failure)
Encode(r, throws) ==
    /\ cur = r
    /\ pc[r] = "encode"
    /\ IF throws
       THEN Abort(r, "encode failed") /\ Event(r, "encodeFailed")
       ELSE Goto(r, "yield") /\ Event(r, "encode")
    /\ UNCHANGED <<loopVars, deckVars, hooks, cur, opts, outcome, frameVars,
                   yielded, entryFb>>
    /\ UNCHANGED <<rbVars, utilVars>>

\* yield {frame, exrBuffer, pixels: flippedPixels} with the deck restored while the
\* generator is suspended
Yield_RestoresWhileSuspended(r) ==
    /\ cur = r
    /\ pc[r] = "yield"
    /\ yielded' = [yielded EXCEPT ![r] =
                      Append(@, [frame |-> frame[r],
                                 exrBuffer |-> EncodedFrame(flippedPixels[r], ExporterWidth,
                                                        ExporterHeight),
                                 pixels |-> flippedPixels[r]])]
    /\ cur' = NoTask
    /\ deckFb' = originalFramebuffer
    /\ Goto(r, "suspended")
    /\ Event(r, "yield")
    /\ UNCHANGED <<loopVars, deckOAR, pendingDraws, hooks, opts, outcome, frameVars, entryFb>>
    /\ UNCHANGED <<rbVars, utilVars>>

\* yield {frame, exrBuffer, pixels: flippedPixels}: the generator suspends
Yield(r) ==
    /\ cur = r
    /\ pc[r] = "yield"
    /\ yielded' = [yielded EXCEPT ![r] =
                      Append(@, [frame |-> frame[r],
                                 exrBuffer |-> EncodedFrame(flippedPixels[r], ExporterWidth,
                                                        ExporterHeight),
                                 pixels |-> flippedPixels[r]])]
    /\ cur' = NoTask
    /\ Goto(r, "suspended")
    /\ Event(r, "yield")
    /\ UNCHANGED <<loopVars, deckVars, hooks, opts, outcome, frameVars, entryFb>>
    /\ UNCHANGED <<rbVars, utilVars>>

\* finally { this._endExport(); ...
EndExport_NoRestore(r) ==
    /\ cur = r
    /\ pc[r] = "finally"
    /\ originalFramebuffer' = NULL
    /\ Goto(r, "finally2")
    /\ Event(r, "endExport")
    /\ UNCHANGED <<isRendering, deckVars, hooks, cur, opts, outcome, frameVars,
                   yielded, entryFb>>
    /\ UNCHANGED <<rbVars, utilVars>>

EndExport_AfterIdle(r) ==
    /\ cur = r
    /\ pc[r] = "finally"
    /\ isRendering' = FALSE
    /\ Goto(r, "finally2")
    /\ UNCHANGED <<originalFramebuffer, deckVars, hooks, cur, opts, outcome, frameVars,
                   yielded, entryFb, log>>
    /\ UNCHANGED <<rbVars, utilVars>>

EndExport(r) ==
    /\ cur = r
    /\ pc[r] = "finally"
    /\ deckFb' = originalFramebuffer
    /\ originalFramebuffer' = NULL
    /\ Goto(r, "finally2")
    /\ Event(r, "endExport")
    /\ UNCHANGED <<isRendering, deckOAR, pendingDraws, hooks, cur, opts, outcome, frameVars,
                   yielded, entryFb>>
    /\ UNCHANGED <<rbVars, utilVars>>

OutcomeOf(why) ==
    IF why = "completed" THEN "completed"
    ELSE IF why \in {"return", "throw"} THEN "cancelled"
    ELSE "failed"

\* ... this._isRendering = false }: the generator completes
BecomeIdle(r) ==
    /\ cur = r
    /\ pc[r] = "finally2"
    /\ isRendering' = FALSE
    /\ cur' = NoTask
    /\ outcome' = [outcome EXCEPT ![r] = OutcomeOf(err[r])]
    /\ Goto(r, "done")
    /\ Event(r, "idle")
    /\ UNCHANGED <<originalFramebuffer, deckVars, hooks, opts, frameVars, yielded, entryFb>>
    /\ UNCHANGED <<rbVars, utilVars>>

(* ---------------------------------------------------------------------- *)
(* Specification                                                          *)
(* ---------------------------------------------------------------------- *)
Next ==
    \/ \E r \in Runs, s \in StartFrames, e \in EndFrames :
          CallRenderSequence(r, s, e)
    \/ \E r \in Runs : FirstNext(r)
    \/ \E r \in Runs : ResumeNext(r)
    \/ \E r \in Runs, how \in {"return", "throw"} : CancelAtYield(r, how)
    \/ \E r \in Runs : CancelBeforeStart(r)
    \/ \E r \in Runs : RejectStarted(r)
    \/ \E r \in Runs : EnterExporting(r)
    \/ \E r \in Runs : BeginExport(r)
    \/ \E r \in Runs : LoopTest(r)
    \/ \E r \in Runs, throws \in BOOLEAN : OnFrameStart(r, throws)
    \/ \E r \in Runs, throws \in BOOLEAN : OnUpdateFrame(r, throws)
    \/ \E r \in Runs, rejects \in BOOLEAN : UpdateSettles(r, rejects)
    \/ \E r \in Runs : RenderToHDR(r)
    \/ DeckAfterRender
    \/ \E r \in Runs, fails \in BOOLEAN : ReadbackSettles(r, fails)
    \/ \E r \in Runs : ResumeRender(r)
    \/ \E r \in Runs, throws \in BOOLEAN : OnFrameComplete(r, throws)
    \/ \E r \in Runs : Flip(r)
    \/ \E r \in Runs, throws \in BOOLEAN : Encode(r, throws)
    \/ \E r \in Runs : Yield(r)
    \/ \E r \in Runs : EndExport(r)
    \/ \E r \in Runs : BecomeIdle(r)

Spec == Init /\ [][Next]_vars

(* ---------------------------------------------------------------------- *)
(* renderFrame(frame), statement by statement.  It is an async function:  *)
(* the call runs synchronously up to its first await, an exception rejects *)
(* the promise it returned.                                               *)
(* ---------------------------------------------------------------------- *)
MaxReadbacks == 2

\* an exception in renderFrame: the returned promise rejects, nothing else runs
RfReject(f, why) ==
    /\ pc' = [pc EXCEPT ![f] = "done"]
    /\ err' = [err EXCEPT ![f] = why]
    /\ outcome' = [outcome EXCEPT ![f] = "rejected"]
    /\ cur' = NoTask
    /\ UNCHANGED frame

\* the frame numbers renderFrame is called with: not a frame of the run
RenderFrameNumbers == {1}

\* renderLoop.renderFrame(frame)
CallRenderFrame(f, n) ==
    /\ cur = NoTask
    /\ pc[f] = "none"
    /\ cur' = f
    /\ pc' = [pc EXCEPT ![f] = "rfFrameStart"]
    /\ frame' = [frame EXCEPT ![f] = n]
    /\ UNCHANGED <<loopVars, deckVars, hooks, opts, err, outcome, frameVars,
                   yielded, entryFb, log>>
    /\ UNCHANGED <<rbVars, utilVars>>

\* this._onFrameStart?.(frame)
RfOnFrameStart(f, throws) ==
    /\ cur = f
    /\ pc[f] = "rfFrameStart"
    /\ IF "onFrameStart" \in hooks
       THEN /\ Event(f, "onFrameStart")
            /\ IF throws
               THEN RfReject(f, "onFrameStart threw")
               ELSE Goto(f, "rfUpdate") /\ UNCHANGED <<cur, outcome>>
       ELSE /\ ~throws
            /\ Goto(f, "rfUpdate")
            /\ UNCHANGED <<log, cur, outcome>>
    /\ UNCHANGED <<loopVars, deckVars, hooks, opts, frameVars, yielded, entryFb>>
    /\ UNCHANGED <<rbVars, utilVars>>

\* if (this._onUpdateFrame) await this._onUpdateFrame(frame, this.deck)
RfOnUpdateFrame(f, throws) ==
    /\ cur = f
    /\ pc[f] = "rfUpdate"
    /\ IF "onUpdateFrame" \in hooks
       THEN /\ Event(f, "onUpdateFrame")
            /\ IF throws
               THEN RfReject(f, "onUpdateFrame threw")
               ELSE Goto(f, "rfAwaitUpdate") /\ cur' = NoTask /\ UNCHANGED outcome
       ELSE /\ ~throws
            /\ Goto(f, "render")
            /\ UNCHANGED <<log, cur, outcome>>
    /\ UNCHANGED <<loopVars, deckVars, hooks, opts, frameVars, yielded, entryFb>>
    /\ UNCHANGED <<rbVars, utilVars>>

\* the promise returned by onUpdateFrame settles and renderFrame resumes
RfUpdateSettles(f, rejects) ==
    /\ cur = NoTask
    /\ pc[f] = "rfAwaitUpdate"
    /\ IF rejects
       THEN RfReject(f, "onUpdateFrame rejected") /\ Event(f, "updateRejected")
       ELSE /\ Goto(f, "render")
            /\ cur' = f
            /\ Event(f, "updateDone")
            /\ UNCHANGED outcome
    /\ UNCHANGED <<loopVars, deckVars, hooks, opts, frameVars, yielded, entryFb>>
    /\ UNCHANGED <<rbVars, utilVars>>

\* const pixels = await this._renderToHDR(): renderFrame resumes
RfResumeRender(f) ==
    /\ cur = NoTask
    /\ pc[f] = "awaitRender"
    /\ renderPromise[f] \in {"resolved", "rejected"}
    /\ IF renderPromise[f] = "resolved"
       THEN Goto(f, "rfFrameComplete") /\ cur' = f /\ UNCHANGED outcome
       ELSE RfReject(f, "readback failed")
    /\ UNCHANGED <<loopVars, deckVars, hooks, opts, frameVars, yielded, entryFb, log>>
    /\ UNCHANGED <<rbVars, utilVars>>

\* this._onFrameComplete?.(frame, pixels)
RfOnFrameComplete(f, throws) ==
    /\ cur = f
    /\ pc[f] = "rfFrameComplete"
    /\ IF "onFrameComplete" \in hooks
       THEN /\ log' = [log EXCEPT ![f] =
                          Append(@, <<"onFrameComplete", frame[f], OnFrameCompleteArg(f)>>)]
            /\ IF throws
               THEN RfReject(f, "onFrameComplete threw")
               ELSE Goto(f, "rfFlip") /\ UNCHANGED <<cur, outcome>>
       ELSE /\ ~throws
            /\ Goto(f, "rfFlip")
            /\ UNCHANGED <<log, cur, outcome>>
    /\ UNCHANGED <<loopVars, deckVars, hooks, opts, frameVars, yielded, entryFb>>
    /\ UNCHANGED <<rbVars, utilVars>>

\* const flippedPixels = flipPixelsVertically(pixels, exporter.width, exporter.height, 4)
RfFlip(f) ==
    /\ cur = f
    /\ pc[f] = "rfFlip"
    /\ flippedPixels' = [flippedPixels EXCEPT ![f] =
                            flipPixelsVertically(pixels[f], ExporterWidth, ExporterHeight, 4)]
    /\ Goto(f, "rfEncode")
    /\ Event(f, "flip")
    /\ UNCHANGED <<loopVars, deckVars, hooks, cur, opts, outcome, renderPromise, savedOAR,
                   readbacks, pixels, yielded, entryFb>>
    /\ UNCHANGED <<rbVars, utilVars>>

\* const exrBuffer = writeEXR(...); return exrBuffer, and with it the run-state
\* bookkeeping of a sequence: this._endExport(); this._isRendering = false
RfEncode_WithBookkeeping(f, throws) ==
    /\ cur = f
    /\ pc[f] = "rfEncode"
    /\ ~throws
    /\ yielded' = [yielded EXCEPT ![f] =
                      Append(@, [frame |-> frame[f],
                                 exrBuffer |-> EncodedFrame(flippedPixels[f], ExporterWidth,
                                                            ExporterHeight)])]
    /\ pc' = [pc EXCEPT ![f] = "done"]
    /\ outcome' = [outcome EXCEPT ![f] = "returned"]
    /\ cur' = NoTask
    /\ deckFb' = originalFramebuffer
    /\ originalFramebuffer' = NULL
    /\ isRendering' = FALSE
    /\ Event(f, "encode")
    /\ UNCHANGED <<err, frame, deckOAR, pendingDraws, hooks, opts, frameVars, entryFb>>
    /\ UNCHANGED <<rbVars, utilVars>>

\* const exrBuffer = writeEXR(...); return exrBuffer
RfEncode(f, throws) ==
    /\ cur = f
    /\ pc[f] = "rfEncode"
    /\ IF throws
       THEN /\ RfReject(f, "encode failed")
            /\ Event(f, "encodeFailed")
            /\ UNCHANGED yielded
       ELSE /\ yielded' = [yielded EXCEPT ![f] =
                              Append(@, [frame |-> frame[f],
                                         exrBuffer |-> EncodedFrame(flippedPixels[f],
                                                           ExporterWidth, ExporterHeight)])]
            /\ pc' = [pc EXCEPT ![f] = "done"]
            /\ outcome' = [outcome EXCEPT ![f] = "returned"]
            /\ cur' = NoTask
            /\ Event(f, "encode")
            /\ UNCHANGED <<err, frame>>
    /\ UNCHANGED <<loopVars, deckVars, hooks, opts, frameVars, entryFb>>
    /\ UNCHANGED <<rbVars, utilVars>>

\* the number of readbacks the callback of task t has started for its current frame
ReadStarts(t) ==
    Cardinality({i \in 1 .. Len(log[t]) : log[t][i] = <<"readStart", frame[t]>>})

\* The deck draws again on its own (its animation loop, a view state change) while
\* the readback started by the callback of _renderToHDR is in flight, and calls
\* props.onAfterRender: the callback is still installed and starts
\* exporter.readPixelsAsync() again.
DeckRendersAgain ==
    /\ cur = NoTask
    /\ deckOAR # UserCallback
    /\ readbacks[deckOAR[2]] > 0
    /\ ReadStarts(deckOAR[2]) < MaxReadbacks
    /\ readbacks' = [readbacks EXCEPT ![deckOAR[2]] = @ + 1]
    /\ Events2(deckOAR[2], "afterRender", "readStart")
    /\ UNCHANGED <<loopVars, deckVars, hooks, cur, pc, opts, frame, err, outcome,
                   renderPromise, savedOAR, pixels, flippedPixels, yielded, entryFb>>
    /\ UNCHANGED <<rbVars, utilVars>>

\* one renderSequence run of one frame whose hooks and encoder succeed, one
\* renderFrame call and a deck that may draw on its own
FrameNext ==
    \/ CallRenderSequence("g1", <<>>, 0)
    \/ FirstNext("g1")
    \/ ResumeNext("g1")
    \/ EnterExporting("g1")
    \/ BeginExport("g1")
    \/ LoopTest("g1")
    \/ OnFrameStart("g1", FALSE)
    \/ OnUpdateFrame("g1", FALSE)
    \/ UpdateSettles("g1", FALSE)
    \/ \E t \in {"g1"} \cup Frames : RenderToHDR(t)
    \/ DeckAfterRender
    \/ DeckRendersAgain
    \/ \E t \in {"g1"} \cup Frames, fails \in BOOLEAN : ReadbackSettles(t, fails)
    \/ ResumeRender("g1")
    \/ OnFrameComplete("g1", FALSE)
    \/ Flip("g1")
    \/ Encode("g1", FALSE)
    \/ Yield("g1")
    \/ EndExport("g1")
    \/ BecomeIdle("g1")
    \/ \E f \in Frames, n \in RenderFrameNumbers : CallRenderFrame(f, n)
    \/ \E f \in Frames, throws \in BOOLEAN : RfOnFrameStart(f, throws)
    \/ \E f \in Frames, throws \in BOOLEAN : RfOnUpdateFrame(f, throws)
    \/ \E f \in Frames, rejects \in BOOLEAN : RfUpdateSettles(f, rejects)
    \/ \E f \in Frames : RfResumeRender(f)
    \/ \E f \in Frames, throws \in BOOLEAN : RfOnFrameComplete(f, throws)
    \/ \E f \in Frames : RfFlip(f)
    \/ \E f \in Frames, throws \in BOOLEAN : RfEncode(f, throws)

\* the hooks are all supplied or all absent
FrameInit == Init /\ deckFb = UserFb /\ hooks \in {{}, HookNames}

FrameSpec == FrameInit /\ [][FrameNext]_vars

(* ---------------------------------------------------------------------- *)
(* gpu-readback: readPixelsAsync(device, source, options)                 *)
(*                                                                        *)
(* A texture sample is <<"sample", row, column, channel>>.  A byte of the *)
(* transfer buffer is <<"byte", row, column, channel, k>>, the k-th byte  *)
(* of the stored sample, or <<"pad">>, a byte the copy did not write.  An *)
(* element of a typed array is a sample value <<"sample", ...>>, a        *)
(* reinterpretation <<"bits", bytes>> of bytes that are not one stored    *)
(* sample of the element's type, or <<"zero">>, the initial element.      *)
(* ---------------------------------------------------------------------- *)
MaxReadHeight == 2
RowAlignment == 256
Channels == 4

Formats == {"rgba8unorm", "rgba16float", "rgba32float"}
ReadWidths == {1, 2, 16, 17, 32, 33, 64, 65}
ReadHeights == 1 .. MaxReadHeight

\* format.includes('float')
IsFloatFormat(format) == format \in {"rgba16float", "rgba32float"}

\* getBytesPerPixel(format)
getBytesPerPixel(format) ==
    IF format = "rgba32float" THEN 16
    ELSE IF format = "rgba16float" THEN 8
    ELSE IF format = "rgba8unorm" THEN 4
    ELSE 4

\* options.x ?? 0, options.width ?? texture.width, ...
OrDefault(opt, default) == IF opt = <<>> THEN default ELSE opt[1]

RegionX(in) == OrDefault(in.x, 0)
RegionY(in) == OrDefault(in.y, 0)
RegionWidth(in) == OrDefault(in.width, in.texWidth)
RegionHeight(in) == OrDefault(in.height, in.texHeight)

\* Math.ceil((width * bytesPerPixel) / 256) * 256
BytesPerRow(in) ==
    ((RegionWidth(in) * getBytesPerPixel(in.format) + RowAlignment - 1) \div RowAlignment)
       * RowAlignment

BufferSize(in) == BytesPerRow(in) * RegionHeight(in)

\* 0 <= x, 0 <= y, x + width <= texture.width, y + height <= texture.height
InBounds(in) ==
    /\ RegionX(in) >= 0
    /\ RegionY(in) >= 0
    /\ RegionX(in) + RegionWidth(in) <= in.texWidth
    /\ RegionY(in) + RegionHeight(in) <= in.texHeight

\* origin: {x, y, z: 0} is a dictionary of unsigned integers: the binding throws a
\* TypeError for a negative member when copyTextureToBuffer is called
OriginThrows(in) == RegionX(in) < 0 \/ RegionY(in) < 0

\* The byte at offset o of the mapped range after copyTextureToBuffer with
\* origin (x, y), bytesPerRow and extent (width, height): rows start at multiples
\* of bytesPerRow, each holding width texels of bytesPerPixel bytes.  A copy whose
\* region leaves the texture is a validation error of the device: the command
\* buffer is invalid, nothing is copied and the buffer keeps its initial bytes.
MappedByte(in, o) ==
    LET bpp == getBytesPerPixel(in.format)
        bpc == bpp \div Channels
        row == o \div BytesPerRow(in)
        col == o % BytesPerRow(in)
    IN IF InBounds(in) /\ col < RegionWidth(in) * bpp
       THEN <<"byte", RegionY(in) + row, RegionX(in) + (col \div bpp),
              (col % bpp) \div bpc, (col % bpp) % bpc>>
       ELSE <<"pad">>

\* new Float32Array(mappedRange)[e]: the four bytes at 4e, read as one binary32
Float32Element(in, e) ==
    LET bs == [k \in 1 .. 4 |-> MappedByte(in, 4 * e + k - 1)]
    IN IF /\ getBytesPerPixel(in.format) \div Channels = 4
          /\ \A k \in 1 .. 4 : bs[k][1] = "byte" /\ bs[k][5] = k - 1
          /\ \A k \in 2 .. 4 : <<bs[k][2], bs[k][3], bs[k][4]>> = <<bs[1][2], bs[1][3], bs[1][4]>>
       THEN <<"sample", bs[1][2], bs[1][3], bs[1][4]>>
       ELSE <<"bits", bs>>

\* new Uint8Array(mappedRange)[e]
Uint8Element(in, e) ==
    LET b == MappedByte(in, e)
    IN IF getBytesPerPixel(in.format) \div Channels = 1 /\ b[1] = "byte"
       THEN <<"sample", b[2], b[3], b[4]>>
       ELSE <<"bits", <<b>>>>

SourceArrayLength(in) ==
    IF IsFloatFormat(in.format) THEN BufferSize(in) \div 4 ELSE BufferSize(in)

SourceArrayElement(in, e) ==
    IF IsFloatFormat(in.format) THEN Float32Element(in, e) ELSE Uint8Element(in, e)

\* the row loop of readPixelsWebGPU: data.set(sourceArray.subarray(srcOffset,
\* srcOffset + dstPixelsPerRow), dstOffset) for every row; subarray clamps to the
\* length of sourceArray, elements not set keep their initial zero.
WebGPUData(in) ==
    LET srcBytesPerRow == BytesPerRow(in) \div (IF IsFloatFormat(in.format) THEN 4 ELSE 1)
        dstPixelsPerRow == RegionWidth(in) * Channels
    IN [i \in 0 .. RegionWidth(in) * RegionHeight(in) * Channels - 1 |->
          LET src == (i \div dstPixelsPerRow) * srcBytesPerRow + (i % dstPixelsPerRow)
          IN IF src < SourceArrayLength(in)
             THEN SourceArrayElement(in, src)
             ELSE <<"zero">>]

\* device.readPixelsToArrayWebGL(framebuffer, {sourceX, sourceY, sourceWidth,
\* sourceHeight, target: data}): the samples of the region, row by row, in the
\* element type of the target; elements for pixels outside the framebuffer are
\* not written.
WebGLData(in) ==
    LET perRow == RegionWidth(in) * Channels
    IN [i \in 0 .. RegionWidth(in) * RegionHeight(in) * Channels - 1 |->
          LET row == RegionY(in) + (i \div perRow)
              col == RegionX(in) + ((i % perRow) \div Channels)
          IN IF row >= 0 /\ row < in.texHeight /\ col >= 0 /\ col < in.texWidth
             THEN <<"sample", row, col, i % Channels>>
             ELSE <<"zero">>]

\* new Float32Array(...) or new Uint8Array(...)
ElementKind(in) == IF IsFloatFormat(in.format) THEN "Float32Array" ELSE "Uint8Array"

\* {data, width, height, channels}
ReadPixelsResult(in, data) ==
    [data |-> data, kind |-> ElementKind(in), width |-> RegionWidth(in),
     height |-> RegionHeight(in), channels |-> Channels]

\* the calls followed: regions inside the texture that reach its far edges, and
\* regions of small textures that leave it on one side or another
ReadInputs ==
    {in \in [device : {"webgpu", "webgl"}, source : {"framebuffer", "texture"},
             format : Formats, texWidth : ReadWidths, texHeight : ReadHeights,
             x : {<<>>, <<0>>, <<1>>, <<-1>>}, y : {<<>>, <<1>>, <<-1>>},
             width : {<<>>} \cup {<<w>> : w \in ReadWidths},
             height : {<<>>} \cup {<<h>> : h \in ReadHeights}] :
        \/ /\ InBounds(in)
           /\ in.width # <<>> => in.width[1] = in.texWidth - RegionX(in)
           /\ in.height # <<>> => in.height[1] = in.texHeight - RegionY(in)
        \/ /\ ~InBounds(in)
           /\ in.texWidth <= 2
           /\ in.width \in {<<>>, <<1>>, <<2>>}
           /\ in.height \in {<<>>, <<1>>}}

RbInit ==
    /\ LoopInit
    /\ deckFb = NULL
    /\ hooks = {}
    /\ UtilIdle
    /\ rbIn \in ReadInputs
    /\ rbPc = "call"
    /\ rbBuffer = "none"
    /\ rbTempFb = "none"
    /\ rbOps = <<>>
    /\ rbData = <<>>
    /\ rbOut = <<>>

\* if (device.type === 'webgpu') return readPixelsWebGPU(...); return readPixelsWebGL(...)
ReadPixelsAsync ==
    /\ rbPc = "call"
    /\ rbPc' = IF rbIn.device = "webgpu" THEN "createBuffer" ELSE "getFramebuffer"
    /\ UNCHANGED <<rbIn, rbBuffer, rbTempFb, rbOps, rbData, rbOut, loopAllVars, utilVars>>

\* gpuDevice.createBuffer({size: bufferSize, usage: COPY_DST | MAP_READ})
CreateReadbackBuffer ==
    /\ rbPc = "createBuffer"
    /\ rbBuffer' = "created"
    /\ rbOps' = Append(rbOps, <<"createBuffer", BufferSize(rbIn)>>)
    /\ rbPc' = "copy"
    /\ UNCHANGED <<rbIn, rbTempFb, rbData, rbOut, loopAllVars, utilVars>>

\* commandEncoder.copyTextureToBuffer(...); gpuDevice.queue.submit([...])
CopyTextureToBuffer ==
    /\ rbPc = "copy"
    /\ IF OriginThrows(rbIn)
       THEN /\ rbPc' = "threw"
            /\ rbOut' = <<"copyTextureToBuffer threw">>
            /\ UNCHANGED rbOps
       ELSE /\ rbOps' = Append(Append(rbOps, <<"copyTextureToBuffer", BytesPerRow(rbIn)>>),
                               <<"submit", 1>>)
            /\ rbPc' = "mapAsync"
            /\ UNCHANGED rbOut
    /\ UNCHANGED <<rbIn, rbBuffer, rbTempFb, rbData, loopAllVars, utilVars>>

\* await readbackBuffer.mapAsync(GPUMapMode.READ): resolves, or rejects and the
\* rejection leaves readPixelsWebGPU at once
MapAsync(fails) ==
    /\ rbPc = "mapAsync"
    /\ IF fails
       THEN /\ rbPc' = "threw"
            /\ rbOut' = <<"mapAsync rejected">>
            /\ UNCHANGED rbBuffer
       ELSE /\ rbPc' = "copyRows"
            /\ rbBuffer' = "mapped"
            /\ UNCHANGED rbOut
    /\ UNCHANGED <<rbIn, rbTempFb, rbOps, rbData, loopAllVars, utilVars>>

\* getMappedRange(), the typed views and the row loop
CopyRows ==
    /\ rbPc = "copyRows"
    /\ rbData' = WebGPUData(rbIn)
    /\ rbPc' = "cleanup"
    /\ UNCHANGED <<rbIn, rbBuffer, rbTempFb, rbOps, rbOut, loopAllVars, utilVars>>

\* readbackBuffer.unmap(); readbackBuffer.destroy(); return {data, width, height, channels}
CleanupAndReturn ==
    /\ rbPc = "cleanup"
    /\ rbBuffer' = "destroyed"
    /\ rbOut' = ReadPixelsResult(rbIn, rbData)
    /\ rbPc' = "returned"
    /\ UNCHANGED <<rbIn, rbTempFb, rbOps, rbData, loopAllVars, utilVars>>

\* 'colorAttachments' in source ? source : device.createFramebuffer({colorAttachments: [texture]})
GetFramebuffer ==
    /\ rbPc = "getFramebuffer"
    /\ IF rbIn.source = "texture"
       THEN /\ rbTempFb' = "created"
            /\ rbOps' = Append(rbOps, <<"createFramebuffer", 1>>)
       ELSE UNCHANGED <<rbTempFb, rbOps>>
    /\ rbPc' = "readPixels"
    /\ UNCHANGED <<rbIn, rbBuffer, rbData, rbOut, loopAllVars, utilVars>>

\* device.readPixelsToArrayWebGL(framebuffer, {...target: data}): fills data, or throws
ReadPixelsToArrayWebGL(throws) ==
    /\ rbPc = "readPixels"
    /\ rbOps' = Append(rbOps, <<"readPixelsToArrayWebGL", 1>>)
    /\ IF throws
       THEN /\ rbPc' = "threw"
            /\ rbOut' = <<"readPixelsToArrayWebGL threw">>
            /\ UNCHANGED rbData
       ELSE /\ rbPc' = "destroyTemp"
            /\ rbData' = WebGLData(rbIn)
            /\ UNCHANGED rbOut
    /\ UNCHANGED <<rbIn, rbBuffer, rbTempFb, loopAllVars, utilVars>>

\* if (tempFramebuffer) framebuffer.destroy(); return {data, width, height, channels}
DestroyTempAndReturn ==
    /\ rbPc = "destroyTemp"
    /\ IF rbTempFb = "created"
       THEN /\ rbTempFb' = "destroyed"
            /\ rbOps' = Append(rbOps, <<"destroyFramebuffer", 1>>)
       ELSE UNCHANGED <<rbTempFb, rbOps>>
    /\ rbOut' = ReadPixelsResult(rbIn, rbData)
    /\ rbPc' = "returned"
    /\ UNCHANGED <<rbIn, rbBuffer, rbData, loopAllVars, utilVars>>

RbNext ==
    \/ ReadPixelsAsync
    \/ CreateReadbackBuffer
    \/ CopyTextureToBuffer
    \/ \E fails \in BOOLEAN : MapAsync(fails)
    \/ CopyRows
    \/ CleanupAndReturn
    \/ GetFramebuffer
    \/ \E throws \in BOOLEAN : ReadPixelsToArrayWebGL(throws)
    \/ DestroyTempAndReturn

ReadbackSpec == RbInit /\ [][RbNext]_vars

(* ---------------------------------------------------------------------- *)
(* gpu-readback: flipPixelsVertically(data, width, height, channels = 4)  *)
(* applied to a buffer, and again to its result with the same arguments   *)
(* ---------------------------------------------------------------------- *)
MaxFlipLen == 8
MaxFlipWidth == 2
MaxFlipHeight == 3

ArrayKinds == {"Float32Array", "Uint8Array"}

\* the buffers followed: all elements distinct and not zero, or all zero
FlipBuffers ==
    {[i \in 0 .. n - 1 |-> i + 1] : n \in 0 .. MaxFlipLen}
       \cup {[i \in 0 .. n - 1 |-> 0] : n \in 1 .. MaxFlipLen}

\* channels: <<>> when the argument is not given
FlipInputs ==
    [kind : ArrayKinds, data : FlipBuffers, width : 0 .. MaxFlipWidth,
     height : 0 .. MaxFlipHeight, channels : {<<>>, <<1>>, <<2>>, <<4>>}]

\* channels: number = 4
FlipChannels(in) == OrDefault(in.channels, 4)

FlipInit ==
    /\ LoopInit
    /\ deckFb = NULL
    /\ hooks = {}
    /\ RbIdle
    /\ exporter = [pc |-> "idle"]
    /\ half = [pc |-> "idle"]
    /\ exr = [pc |-> "idle"]
    /\ textures = [pc |-> "idle"]
    /\ \E in \in FlipInputs : flipCall = [pc |-> "call", in |-> in]

\* flipPixelsVertically(data, width, height, channels): returns a new array of the
\* constructor of data, or throws the RangeError of set()
FlipOnce ==
    /\ flipCall.pc = "call"
    /\ LET in == flipCall.in
           call == FlipCall(in.data, in.width, in.height, FlipChannels(in))
       IN flipCall' =
             IF call.threw
             THEN [pc |-> "threw", in |-> in, dataAfter |-> in.data]
             ELSE [pc |-> "flipped", in |-> in, dataAfter |-> in.data,
                   once |-> [kind |-> in.kind, data |-> call.flipped]]
    /\ UNCHANGED <<loopAllVars, rbVars, exporter, libVars>>

\* flipPixelsVertically(flipped, width, height, channels) on the result of the first call
FlipTwice ==
    /\ flipCall.pc = "flipped"
    /\ LET in == flipCall.in
           call == FlipCall(flipCall.once.data, in.width, in.height, FlipChannels(in))
       IN flipCall' =
             IF call.threw
             THEN [flipCall EXCEPT !.pc = "threwTwice"]
             ELSE [pc |-> "flippedTwice", in |-> in, dataAfter |-> flipCall.dataAfter,
                   once |-> flipCall.once,
                   twice |-> [kind |-> flipCall.once.kind, data |-> call.flipped]]
    /\ UNCHANGED <<loopAllVars, rbVars, exporter, libVars>>

FlipNext == FlipOnce \/ FlipTwice

FlipSpec == FlipInit /\ [][FlipNext]_vars

(* ---------------------------------------------------------------------- *)
(* hdr-exporter: one HDRExporter, from new HDRExporter(device, props) on   *)
(* ---------------------------------------------------------------------- *)
MaxExporterCalls == 3

ExporterFormats == {"rgba16float", "rgba32float"}
\* width and height of the render target
ExporterSizes == {<<1, 1>>, <<1, 2>>, <<2, 2>>}

\* the device: its backend and the formats isTextureFormatRenderable accepts
Devices == [type : {"webgpu", "webgl"}, renderable : SUBSET ExporterFormats]

\* props.format: <<>> when not given
ExporterProps == [size : ExporterSizes, format : {<<>>} \cup {<<f>> : f \in ExporterFormats}]

\* this.format = props.format ?? 'rgba16float'
FormatOf(props) == OrDefault(props.format, "rgba16float")

\* !device.isTextureFormatRenderable(this.format)
NotRenderable(device, format) == format \notin device.renderable

ExporterInit ==
    /\ LoopInit
    /\ deckFb = NULL
    /\ hooks = {}
    /\ RbIdle
    /\ flipCall = [pc |-> "idle"]
    /\ half = [pc |-> "idle"]
    /\ exr = [pc |-> "idle"]
    /\ textures = [pc |-> "idle"]
    /\ \E d \in Devices, p \in ExporterProps :
          exporter = [pc |-> "new", device |-> d, props |-> p, ops |-> <<>>, calls |-> 0]

\* The constructor with the capability check after the allocations.
Constructor_CheckAfterAllocation ==
    /\ exporter.pc = "new"
    /\ LET d == exporter.device
           p == exporter.props
           format == FormatOf(p)
           created == <<<<"createTexture", format, p.size>>,
                        <<"createFramebuffer", "depth16unorm", p.size>>>>
       IN exporter' =
             IF NotRenderable(d, format)
             THEN [pc |-> "failed", device |-> d, props |-> p, ops |-> created, calls |-> 0]
             ELSE [pc |-> "ready", device |-> d, props |-> p, ops |-> created, calls |-> 0,
                   size |-> p.size, format |-> format,
                   texture |-> [format |-> format, size |-> p.size],
                   framebuffer |-> [size |-> p.size, depth |-> "depth16unorm"],
                   reading |-> <<>>, last |-> [call |-> "constructor"]]
    /\ UNCHANGED <<loopAllVars, rbVars, flipCall, libVars>>

\* new HDRExporter(device, props): throws when the format is not renderable, else
\* device.createTexture({format, width, height, ...}) and
\* device.createFramebuffer({colorAttachments: [texture], depthStencilAttachment: 'depth16unorm'})
Constructor ==
    /\ exporter.pc = "new"
    /\ LET d == exporter.device
           p == exporter.props
           format == FormatOf(p)
       IN exporter' =
             IF NotRenderable(d, format)
             THEN [pc |-> "failed", device |-> d, props |-> p, ops |-> <<>>, calls |-> 0]
             ELSE [pc |-> "ready", device |-> d, props |-> p, calls |-> 0,
                   ops |-> <<<<"createTexture", format, p.size>>,
                             <<"createFramebuffer", "depth16unorm", p.size>>>>,
                   size |-> p.size, format |-> format,
                   texture |-> [format |-> format, size |-> p.size],
                   framebuffer |-> [size |-> p.size, depth |-> "depth16unorm"],
                   reading |-> <<>>, last |-> [call |-> "constructor"]]
    /\ UNCHANGED <<loopAllVars, rbVars, flipCall, libVars>>

\* a method of the constructed exporter may be called
CanCall == exporter.pc = "ready" /\ exporter.calls < MaxExporterCalls

\* if (width === this.width && height === this.height) return
ResizeIsNoOp_Never(size) == FALSE

ResizeIsNoOp(size) == size = exporter.size

\* resize(width, height): this._framebuffer.resize({width, height}) resizes the
\* framebuffer and its attachments
Resize(size) ==
    /\ CanCall
    /\ exporter' =
          IF ResizeIsNoOp(size)
          THEN [exporter EXCEPT !.calls = @ + 1,
                                !.last = [call |-> "resize", size |-> size]]
          ELSE [exporter EXCEPT !.calls = @ + 1,
                                !.size = size,
                                !.framebuffer.size = size,
                                !.texture.size = size,
                                !.ops = Append(@, <<"framebuffer.resize", size>>),
                                !.last = [call |-> "resize", size |-> size]]
    /\ UNCHANGED <<loopAllVars, rbVars, flipCall, libVars>>

\* if (this.device.type === 'webgpu') throw
SyncReadUnsupported_Never == FALSE

SyncReadUnsupported == exporter.device.type = "webgpu"

\* readPixels(): throws on WebGPU, else device.readPixelsToArrayWebGL of the whole
\* framebuffer into a new Float32Array(width * height * 4)
ReadPixels ==
    /\ CanCall
    /\ exporter' =
          IF SyncReadUnsupported
          THEN [exporter EXCEPT !.calls = @ + 1,
                                !.last = [call |-> "readPixels", threw |-> TRUE]]
          ELSE [exporter EXCEPT !.calls = @ + 1,
                                !.ops = Append(@, <<"readPixelsToArrayWebGL", exporter.size>>),
                                !.last = [call |-> "readPixels", threw |-> FALSE,
                                          result |-> [kind |-> "Float32Array",
                                                      size |-> exporter.framebuffer.size,
                                                      flippedAs |-> <<>>]]]
    /\ UNCHANGED <<loopAllVars, rbVars, flipCall, libVars>>

\* readPixelsFlipped(): this.readPixels(), then flipPixelsVertically(pixels,
\* this.width, this.height, 4)
ReadPixelsFlipped ==
    /\ CanCall
    /\ exporter' =
          IF SyncReadUnsupported
          THEN [exporter EXCEPT !.calls = @ + 1,
                                !.last = [call |-> "readPixelsFlipped", threw |-> TRUE]]
          ELSE [exporter EXCEPT !.calls = @ + 1,
                                !.ops = Append(@, <<"readPixelsToArrayWebGL", exporter.size>>),
                                !.last = [call |-> "readPixelsFlipped", threw |-> FALSE,
                                          result |-> [kind |-> "Float32Array",
                                                      size |-> exporter.framebuffer.size,
                                                      flippedAs |-> <<exporter.size>>]]]
    /\ UNCHANGED <<loopAllVars, rbVars, flipCall, libVars>>

\* readPixelsFlippedAsync(): const pixels = await this.readPixelsAsync(), which
\* reads the framebuffer as it is now
ReadPixelsFlippedAsync ==
    /\ CanCall
    /\ exporter.reading = <<>>
    /\ exporter' = [exporter EXCEPT !.calls = @ + 1,
                                    !.reading = <<exporter.framebuffer.size>>,
                                    !.ops = Append(@, <<"readPixelsAsync",
                                                        exporter.framebuffer.size>>),
                                    !.last = [call |-> "readPixelsFlippedAsync"]]
    /\ UNCHANGED <<loopAllVars, rbVars, flipCall, libVars>>

\* the await resumes: return flipPixelsVertically(pixels, this.width, this.height, 4)
ReadPixelsFlippedAsyncResumes ==
    /\ exporter.pc = "ready"
    /\ exporter.reading # <<>>
    /\ exporter' = [exporter EXCEPT !.reading = <<>>,
                                    !.last = [call |-> "readPixelsFlippedAsync resumed",
                                              threw |-> FALSE,
                                              result |-> [kind |-> "Float32Array",
                                                          size |-> exporter.reading[1],
                                                          flippedAs |-> <<exporter.size>>]]]
    /\ UNCHANGED <<loopAllVars, rbVars, flipCall, libVars>>

ExporterNext ==
    \/ Constructor
    \/ \E size \in ExporterSizes : Resize(size)
    \/ ReadPixels
    \/ ReadPixelsFlipped
    \/ ReadPixelsFlippedAsync
    \/ ReadPixelsFlippedAsyncResumes

ExporterSpec == ExporterInit /\ [][ExporterNext]_vars

(* ---------------------------------------------------------------------- *)
(* floatToHalf (hdr-render-loop.ts, the EXR writer).  A binary32 value is   *)
(* its three fields; f is the int32 read back through int32View[0].        *)
(* ---------------------------------------------------------------------- *)
\* mantissa fields followed: the ends of the range, the two sides of the 13 bits
\* the conversion drops, the quiet-NaN bit and the mantissas of 65504 and 70000
MantissaSamples == {0, 1, 4096, 8191, 8192, 571392, 4194304, 8380416, 8388607}

Float32Values == [sign : {0, 1}, exp : 0 .. 255, mant : MantissaSamples]

\* const f = int32View[0]: the stored binary32 read as a signed 32-bit integer
Int32Bits(b) ==
    (IF b.sign = 1 THEN (-1073741824) - 1073741824 ELSE 0) + (b.exp * 8388608) + b.mant

\* a & b for b >= 0, a in two's complement
RECURSIVE BitAnd(_, _)
BitAnd(a, b) ==
    IF a = 0 \/ b = 0 THEN 0 ELSE ((a % 2) * (b % 2)) + 2 * BitAnd(a \div 2, b \div 2)

\* a | b for a, b >= 0
BitOr(a, b) == a + b - BitAnd(a, b)

\* a >> n, sign-propagating
ShiftRight(a, n) == a \div (2 ^ n)

\* The overflow test taking the largest finite exponent too.
HalfOverflows_Inclusive(exponent) == exponent >= 30

\* if (exponent > 30)
HalfOverflows(exponent) == exponent > 30

\* floatToHalf, from the bits stored by floatView[0] = value
floatToHalf(f) ==
    LET sign == BitAnd(ShiftRight(f, 16), 32768)
        exponent == BitAnd(ShiftRight(f, 23), 255) - 127 + 15
        mantissa == BitAnd(f, 8388607)
        \* exponent << 10
        shifted == exponent * (2 ^ 10)
    IN  IF exponent <= 0
        THEN IF exponent < -10
             THEN sign
             ELSE LET m == ShiftRight(BitOr(mantissa, 8388608), 1 - exponent)
                  IN  BitOr(sign, ShiftRight(m, 13))
        ELSE IF exponent = 255 - 127 + 15
        THEN IF mantissa = 0
             THEN BitOr(sign, 31744)
             ELSE BitOr(BitOr(sign, 31744), ShiftRight(mantissa, 13))
        ELSE IF HalfOverflows(exponent)
        THEN BitOr(sign, 31744)
        ELSE BitOr(BitOr(sign, shifted), ShiftRight(mantissa, 13))

HalfInit ==
    /\ LoopInit
    /\ deckFb = NULL
    /\ hooks = {}
    /\ RbIdle
    /\ flipCall = [pc |-> "idle"]
    /\ exporter = [pc |-> "idle"]
    /\ exr = [pc |-> "idle"]
    /\ textures = [pc |-> "idle"]
    /\ \E v \in Float32Values : half = [pc |-> "call", value |-> v]

\* floatView[0] = value: a number that is not NaN is stored as itself; for NaN the
\* engine stores a NaN encoding of its choice
StoreFloat ==
    /\ half.pc = "call"
    /\ \E b \in Float32Values :
          /\ IF half.value.exp = 255 /\ half.value.mant # 0
             THEN b.exp = 255 /\ b.mant # 0
             ELSE b = half.value
          /\ half' = [pc |-> "stored", value |-> half.value, bits |-> b, f |-> Int32Bits(b)]
    /\ UNCHANGED <<loopAllVars, rbVars, flipCall, exporter, exr, textures>>

\* the rest of floatToHalf, up to its return
FloatToHalfReturns ==
    /\ half.pc = "stored"
    /\ half' = [pc |-> "returned", value |-> half.value, bits |-> half.bits, f |-> half.f,
                result |-> floatToHalf(half.f)]
    /\ UNCHANGED <<loopAllVars, rbVars, flipCall, exporter, exr, textures>>

HalfNext ==
    \/ StoreFloat
    \/ FloatToHalfReturns

HalfSpec == HalfInit /\ [][HalfNext]_vars

(* ---------------------------------------------------------------------- *)
(* writeEXR (hdr-render-loop.ts).  Strings are the sequences of their       *)
(* character codes, buffers the sequences of their bytes.                  *)
(* ---------------------------------------------------------------------- *)
MaxExrWidth == 2
MaxExrHeight == 2

\* the attribute names and type names of buildHeader
Ascii ==
    [ channels |-> <<99, 104, 97, 110, 110, 101, 108, 115>>,
      chlist |-> <<99, 104, 108, 105, 115, 116>>,
      compression |-> <<99, 111, 109, 112, 114, 101, 115, 115, 105, 111, 110>>,
      dataWindow |-> <<100, 97, 116, 97, 87, 105, 110, 100, 111, 119>>,
      box2i |-> <<98, 111, 120, 50, 105>>,
      displayWindow |-> <<100, 105, 115, 112, 108, 97, 121, 87, 105, 110, 100, 111, 119>>,
      lineOrder |-> <<108, 105, 110, 101, 79, 114, 100, 101, 114>>,
      pixelAspectRatio |-> <<112, 105, 120, 101, 108, 65, 115, 112, 101, 99, 116, 82, 97, 116, 105, 111>>,
      float |-> <<102, 108, 111, 97, 116>>,
      screenWindowCenter |-> <<115, 99, 114, 101, 101, 110, 87, 105, 110, 100, 111, 119, 67, 101, 110, 116, 101, 114>>,
      v2f |-> <<118, 50, 102>>,
      screenWindowWidth |-> <<115, 99, 114, 101, 101, 110, 87, 105, 110, 100, 111, 119, 87, 105, 100, 116, 104>> ]

\* the channel names followed: 'R', 'G', 'B', 'A', an unknown name 'Z' and 'r'
ChannelName == [R |-> <<82>>, G |-> <<71>>, B |-> <<66>>, A |-> <<65>>, Z |-> <<90>>,
                r |-> <<114>>]

\* options.channels ?? ['R', 'G', 'B', 'A']
DefaultChannels == <<ChannelName.R, ChannelName.G, ChannelName.B, ChannelName.A>>

RECURSIVE Concat(_)
Concat(parts) == IF parts = <<>> THEN <<>> ELSE Head(parts) \o Concat(Tail(parts))

\* DataView.setInt32 / setUint32(offset, v, true): the four bytes of v, low byte first
Int32LE(v) == <<v % 256, (v \div 256) % 256, (v \div 65536) % 256, (v \div 16777216) % 256>>

\* DataView.setUint16(offset, v, true)
Uint16LE(v) == <<v % 256, (v \div 256) % 256>>

\* DataView.setFloat32(offset, value, true)
Float32LE(value) == Int32LE(Int32Bits(value))

\* stringToBytes: the encoded string followed by a null byte
stringToBytes(str) == Append(str, 0)

\* the order of Array.prototype.sort() without a comparator: by code units
RECURSIVE StrLess(_, _)
StrLess(a, b) ==
    IF a = <<>> THEN b # <<>>
    ELSE IF b = <<>> THEN FALSE
    ELSE IF Head(a) # Head(b) THEN Head(a) < Head(b)
    ELSE StrLess(Tail(a), Tail(b))

RECURSIVE InsertSorted(_, _)
InsertSorted(x, sorted) ==
    IF sorted = <<>> THEN <<x>>
    ELSE IF StrLess(x, Head(sorted)) THEN <<x>> \o sorted
    ELSE <<Head(sorted)>> \o InsertSorted(x, Tail(sorted))

\* The channels in the order the caller gave them.
RECURSIVE SortedChannels_AsGiven(_)
SortedChannels_AsGiven(channels) ==
    IF channels = <<>> THEN <<>> ELSE <<Head(channels)>> \o SortedChannels_AsGiven(Tail(channels))

\* const sortedChannels = [...channels].sort()
RECURSIVE SortedChannels(_)
SortedChannels(channels) ==
    IF channels = <<>> THEN <<>>
    ELSE InsertSorted(Head(channels), SortedChannels(Tail(channels)))

getChannelIndex(channel) ==
    LET \* channel.toUpperCase()
        upper == [i \in 1 .. Len(channel) |->
                    IF channel[i] \in 97 .. 122 THEN channel[i] - 32 ELSE channel[i]]
    IN  IF upper = ChannelName.R THEN 0
        ELSE IF upper = ChannelName.G THEN 1
        ELSE IF upper = ChannelName.B THEN 2
        ELSE IF upper = ChannelName.A THEN 3
        ELSE 0

writeAttribute(name, type, value) ==
    stringToBytes(name) \o stringToBytes(type) \o Int32LE(Len(value)) \o value

buildChannelList(channels, pixelType) ==
    LET sortedChannels == SortedChannels(channels)
        entry(name) == stringToBytes(name)
                          \o Int32LE(IF pixelType = "half" THEN 1 ELSE 2)
                          \o <<1, 0, 0, 0>>
                          \o Int32LE(1)
                          \o Int32LE(1)
    IN  Concat([i \in 1 .. Len(sortedChannels) |-> entry(sortedChannels[i])]) \o <<0>>

buildBox2i(xMin, yMin, xMax, yMax) ==
    Int32LE(xMin) \o Int32LE(yMin) \o Int32LE(xMax) \o Int32LE(yMax)

buildHeader(width, height, channels, pixelType) ==
    LET one == [sign |-> 0, exp |-> 127, mant |-> 0]
        zero == [sign |-> 0, exp |-> 0, mant |-> 0]
    IN  Concat(<<
          writeAttribute(Ascii.channels, Ascii.chlist, buildChannelList(channels, pixelType)),
          writeAttribute(Ascii.compression, Ascii.compression, <<0>>),
          writeAttribute(Ascii.dataWindow, Ascii.box2i, buildBox2i(0, 0, width - 1, height - 1)),
          writeAttribute(Ascii.displayWindow, Ascii.box2i,
                         buildBox2i(0, 0, width - 1, height - 1)),
          writeAttribute(Ascii.lineOrder, Ascii.lineOrder, <<0>>),
          writeAttribute(Ascii.pixelAspectRatio, Ascii.float, Float32LE(one)),
          writeAttribute(Ascii.screenWindowCenter, Ascii.v2f, Float32LE(zero) \o Float32LE(zero)),
          writeAttribute(Ascii.screenWindowWidth, Ascii.float, Float32LE(one)),
          <<0>> >>)

\* The next table entry without the 8 bytes that start every record.
NextScanlineOffset_DataOnly(scanlineOffset, scanlineDataSize) ==
    scanlineOffset + scanlineDataSize

\* scanlineOffset += scanlineHeaderSize + scanlineDataSize
NextScanlineOffset(scanlineOffset, scanlineDataSize) ==
    scanlineOffset + 8 + scanlineDataSize

\* the first loop of writeEXR over y: one 64-bit entry per scanline
RECURSIVE OffsetTable(_, _, _, _)
OffsetTable(y, height, scanlineOffset, scanlineDataSize) ==
    IF y < height
    THEN Int32LE(scanlineOffset) \o Int32LE(0)
            \o OffsetTable(y + 1, height, NextScanlineOffset(scanlineOffset, scanlineDataSize),
                           scanlineDataSize)
    ELSE <<>>

\* one sample: pixels[pixelIndex] written as half or as float
SampleBytes(px, pixelType, pixelIndex) ==
    IF pixelType = "half"
    THEN Uint16LE(floatToHalf(Int32Bits(px[pixelIndex + 1])))
    ELSE Float32LE(px[pixelIndex + 1])

\* the body of the second loop over y: the record of scanline y
ScanlineRecord(px, width, channels, pixelType, y, scanlineDataSize) ==
    LET sortedChannels == SortedChannels(channels)
        row(channel) ==
            Concat([i \in 1 .. width |->
                      SampleBytes(px, pixelType,
                                  (y * width + (i - 1)) * 4 + getChannelIndex(channel))])
    IN  Int32LE(y) \o Int32LE(scanlineDataSize)
           \o Concat([c \in 1 .. Len(sortedChannels) |-> row(sortedChannels[c])])

\* writeEXR(pixels, width, height, options).  The writes go through the buffer
\* front to back, so the bytes written are one sequence; a write that does not
\* fit in the buffer throws the RangeError of DataView / TypedArray.set.
writeEXR(px, width, height, options) ==
    LET pixelType == OrDefault(options.pixelType, "half")
        channels == OrDefault(options.channels, DefaultChannels)
        numChannels == Len(channels)
        pixelSize == IF pixelType = "half" THEN 2 ELSE 4
        scanlineDataSize == width * numChannels * pixelSize
        header == buildHeader(width, height, channels, pixelType)
        offsetTableSize == height * 8
        headerSize == Len(header)
        totalScanlineSize == (8 + scanlineDataSize) * height
        totalSize == 4 + 4 + headerSize + offsetTableSize + totalScanlineSize
        offsetTableStart == 4 + 4 + headerSize
        table == OffsetTable(0, height, offsetTableStart + offsetTableSize, scanlineDataSize)
        records == [i \in 1 .. height |->
                      ScanlineRecord(px, width, channels, pixelType, i - 1, scanlineDataSize)]
        recordsStart == offsetTableStart + Len(table)
        RECURSIVE StartOf(_)
        StartOf(i) == IF i = 1 THEN recordsStart ELSE StartOf(i - 1) + Len(records[i - 1])
        written == Int32LE(20000630) \o Int32LE(2) \o header \o table \o Concat(records)
    IN  IF totalSize < 0
        THEN [threw |-> "RangeError", allocated |-> FALSE]
        ELSE IF Len(written) > totalSize
        THEN [threw |-> "RangeError", allocated |-> TRUE]
        ELSE [threw |-> "none", allocated |-> TRUE,
              buffer |-> written \o [i \in 1 .. (totalSize - Len(written)) |-> 0],
              offset |-> Len(written),
              offsetTableStart |-> offsetTableStart,
              recordStarts |-> [i \in 1 .. height |-> StartOf(i)]]

\* the float with the value n, for 1 <= n < 128
Float32OfInt(n) ==
    LET k == CHOOSE j \in 0 .. 6 : 2 ^ j <= n /\ n < 2 ^ (j + 1)
    IN  [sign |-> 0, exp |-> 127 + k, mant |-> (n - 2 ^ k) * 2 ^ (23 - k)]

\* the solid red image (1, 0, 0, 1)
RedPixels(width, height) ==
    [i \in 1 .. (width * height * 4) |->
        IF (i - 1) % 4 \in {0, 3} THEN Float32OfInt(1) ELSE [sign |-> 0, exp |-> 0, mant |-> 0]]

ExrOptions ==
    [pixelType : {<<>>, <<"half">>, <<"float">>},
     channels :
    {<<>>, <<DefaultChannels>>, <<(<<>>)>>, <<(<<ChannelName.R>>)>>,
     <<(<<ChannelName.B, ChannelName.G, ChannelName.R>>)>>, <<(<<ChannelName.G, ChannelName.A>>)>>,
     <<(<<ChannelName.Z, ChannelName.A>>)>>, <<(<<ChannelName.r, ChannelName.G>>)>>}]

\* the calls followed: every width and height from -1 up, and the 4 x 4 solid red
\* image with default options.  The pixel array of an image of width x height has
\* width * height * 4 elements, either element i holding the value i or solid
\* red; it is empty where that is no image.
ExrInputs ==
    UNION {{[pixels |-> px, width |-> w, height |-> h, options |-> o] :
               px \in IF w >= 1 /\ h >= 1
                      THEN {[i \in 1 .. (w * h * 4) |-> Float32OfInt(i)], RedPixels(w, h)}
                      ELSE {<<>>},
               o \in ExrOptions} :
           w \in -1 .. MaxExrWidth, h \in -1 .. MaxExrHeight}
    \cup {[pixels |-> RedPixels(4, 4), width |-> 4, height |-> 4,
           options |-> [pixelType |-> <<>>, channels |-> <<>>]]}

ExrInit ==
    /\ LoopInit
    /\ deckFb = NULL
    /\ hooks = {}
    /\ RbIdle
    /\ flipCall = [pc |-> "idle"]
    /\ exporter = [pc |-> "idle"]
    /\ half = [pc |-> "idle"]
    /\ textures = [pc |-> "idle"]
    /\ \E in \in ExrInputs : exr = [pc |-> "call", in |-> in]

WriteEXR ==
    /\ exr.pc = "call"
    /\ exr' = [pc |-> "returned", in |-> exr.in,
               out |-> writeEXR(exr.in.pixels, exr.in.width, exr.in.height, exr.in.options)]
    /\ UNCHANGED <<loopAllVars, rbVars, flipCall, exporter, half, textures>>

ExrNext == WriteEXR

ExrSpec == ExrInit /\ [][ExrNext]_vars

(* ---------------------------------------------------------------------- *)
(* texture.ts: createTexture, destroyTexture and the internalTextures table. *)
(* A Texture of the device is an entry of textures.objs; its id is the id   *)
(* given in the props it was created from, or one the device generates.     *)
(* ---------------------------------------------------------------------- *)
MaxTextures == 3
MaxTextureCalls == 4

Owners == {"layerA", "layerB"}

\* an id a caller can put into the props of a texture
GivenId == <<"tex">>

\* the images handed to createTexture that are not Textures: a plain object with
\* or without an id property, and a browser object
PlainImages == {[kind |-> "plain", id |-> <<>>], [kind |-> "plain", id |-> <<GivenId>>],
                [kind |-> "browser", id |-> <<>>]}

TextureInit ==
    /\ LoopInit
    /\ deckFb = NULL
    /\ hooks = {}
    /\ RbIdle
    /\ flipCall = [pc |-> "idle"]
    /\ exporter = [pc |-> "idle"]
    /\ half = [pc |-> "idle"]
    /\ exr = [pc |-> "idle"]
    /\ textures = [pc |-> "live", internalTextures |-> <<>>, objs |-> <<>>, uid |-> 0,
                   calls |-> 0, last |-> [call |-> "none"]]

\* device.createTexture(props): a new Texture whose id is props.id when given and
\* an id the device generates otherwise
NewTexture(id, origin) ==
    [id |-> IF id = <<>> THEN <<"texture", textures.uid + 1>> ELSE id[1],
     origin |-> origin, deletedBy |-> <<>>]

\* internalTextures[id] === owner
TableHas(table, id, owner) == id \in DOMAIN table /\ table[id] = owner

\* the application creates a Texture of its own, outside createTexture
DeviceCreateTexture(id) ==
    /\ textures.pc = "live"
    /\ Len(textures.objs) < MaxTextures
    /\ textures' = [textures EXCEPT
                       !.objs = Append(@, NewTexture(id, "external")),
                       !.uid = IF id = <<>> THEN @ + 1 ELSE @,
                       !.last = [call |-> "device.createTexture"]]
    /\ UNCHANGED <<loopAllVars, rbVars, flipCall, exporter, half, exr>>

\* createTexture(owner, device, image, sampler) with a Texture as image
CreateTextureFromTexture(owner, t) ==
    /\ textures.pc = "live"
    /\ textures.calls < MaxTextureCalls
    /\ t \in 1 .. Len(textures.objs)
    /\ textures' = [textures EXCEPT
                       !.calls = @ + 1,
                       !.last = [call |-> "createTexture", owner |-> owner,
                                 image |-> "texture", passed |-> t,
                                 returned |-> t, table |-> textures.internalTextures]]
    /\ UNCHANGED <<loopAllVars, rbVars, flipCall, exporter, half, exr>>

\* createTexture(owner, device, image, sampler) with a plain or browser object
CreateTexture(owner, image) ==
    /\ textures.pc = "live"
    /\ textures.calls < MaxTextureCalls
    /\ Len(textures.objs) < MaxTextures
    /\ LET props == IF image.kind = "browser" THEN [id |-> <<>>] ELSE [id |-> image.id]
           texture == NewTexture(props.id, owner)
       IN  textures' = [textures EXCEPT
                           !.objs = Append(@, texture),
                           !.uid = IF props.id = <<>> THEN @ + 1 ELSE @,
                           !.internalTextures = [k \in DOMAIN @ \cup {texture.id} |->
                                                   IF k = texture.id THEN owner ELSE @[k]],
                           !.calls = @ + 1,
                           !.last = [call |-> "createTexture", owner |-> owner,
                                     image |-> image.kind, passed |-> 0,
                                     returned |-> Len(textures.objs) + 1,
                                     table |-> textures.internalTextures]]
    /\ UNCHANGED <<loopAllVars, rbVars, flipCall, exporter, half, exr>>

\* destroyTexture(owner, texture); t = 0 is a call with no Texture
DestroyTexture(owner, t) ==
    /\ textures.pc = "live"
    /\ textures.calls < MaxTextureCalls
    /\ t \in 0 .. Len(textures.objs)
    /\ LET deletes == t # 0 /\ TableHas(textures.internalTextures, textures.objs[t].id, owner)
       IN  textures' = [textures EXCEPT
                           !.objs = IF deletes
                                    THEN [@ EXCEPT ![t].deletedBy = Append(@, owner)]
                                    ELSE @,
                           !.internalTextures = IF deletes
                                                THEN [k \in DOMAIN @ \ {textures.objs[t].id} |-> @[k]]
                                                ELSE @,
                           !.calls = @ + 1,
                           !.last = [call |-> "destroyTexture", owner |-> owner, texture |-> t,
                                     deleted |-> deletes,
                                     table |-> textures.internalTextures]]
    /\ UNCHANGED <<loopAllVars, rbVars, flipCall, exporter, half, exr>>

TextureNext ==
    \/ \E id \in {<<>>, <<GivenId>>} : DeviceCreateTexture(id)
    \/ \E o \in Owners : \E t \in 1 .. MaxTextures : CreateTextureFromTexture(o, t)
    \/ \E o \in Owners : \E image \in PlainImages : CreateTexture(o, image)
    \/ \E o \in Owners : \E t \in 0 .. MaxTextures : DestroyTexture(o, t)

TextureSpec == TextureInit /\ [][TextureNext]_vars

(* ---------------------------------------------------------------------- *)
(* Fairness: every enabled step of the program, every settling promise and *)
(* a consumer that keeps asking for frames are eventually served.  The     *)
(* renderer's after-render signal (DeckAfterRender) is not assumed.        *)
(* ---------------------------------------------------------------------- *)
ProgramStep ==
    \/ \E r \in Runs : FirstNext(r) \/ ResumeNext(r)
    \/ \E r \in Runs : RejectStarted(r) \/ EnterExporting(r) \/ BeginExport(r) \/ LoopTest(r)
    \/ \E r \in Runs, b \in BOOLEAN :
          OnFrameStart(r, b) \/ OnUpdateFrame(r, b) \/ UpdateSettles(r, b)
    \/ \E r \in Runs : RenderToHDR(r) \/ ResumeRender(r)
    \/ \E r \in Runs, b \in BOOLEAN :
          ReadbackSettles(r, b) \/ OnFrameComplete(r, b) \/ Encode(r, b)
    \/ \E r \in Runs : Flip(r) \/ Yield(r) \/ EndExport(r) \/ BecomeIdle(r)

LiveSpec == Init /\ [][Next]_vars /\ WF_vars(ProgramStep)

(* ---------------------------------------------------------------------- *)
(* Vocabulary of the properties                                           *)
(* ---------------------------------------------------------------------- *)
InTryPcs == {"loop", "frameStart", "update", "awaitUpdate", "render", "awaitRender",
             "frameComplete", "flip", "encode", "yield", "suspended"}

\* from this._isRendering = true to the completion of the generator
ExportingPcs == {"begin"} \cup InTryPcs \cup {"finally", "finally2"}

HasEvent(r, kind) == \E i \in 1 .. Len(log[r]) : log[r][i][1] = kind

\* the run has redirected the deck and not yet restored it
Redirected(r) == HasEvent(r, "beginExport") /\ ~HasEvent(r, "endExport")

Failed(r) == err[r] \notin {"none", "completed", "return", "throw"}

YieldedFrames(r) == [i \in 1 .. Len(yielded[r]) |-> yielded[r][i].frame]

FrameRange(a, b) == [i \in 1 .. (IF b >= a THEN b - a + 1 ELSE 0) |-> a + i - 1]

CleanupKinds == {"beginExport", "endExport", "idle"}

\* the kinds of the per-frame effects of run r for frame f, in order
FrameKinds(r, f) ==
    LET es == SelectSeq(log[r], LAMBDA e : e[2] = f /\ e[1] \notin CleanupKinds)
    IN [i \in 1 .. Len(es) |-> es[i][1]]

\* the frames for which onUpdateFrame was invoked, in order
UpdatedFrames(r) ==
    LET es == SelectSeq(log[r], LAMBDA e : e[1] = "onUpdateFrame")
    IN [i \in 1 .. Len(es) |-> es[i][2]]

\* the order of steps 4.4 of the spec gives for one frame, for the hooks supplied
ExpectedFrameSteps ==
    (IF "onFrameStart" \in hooks THEN <<"onFrameStart">> ELSE <<>>)
    \o (IF "onUpdateFrame" \in hooks THEN <<"onUpdateFrame", "updateDone">> ELSE <<>>)
    \o <<"redirect", "redraw", "afterRender", "readStart", "readDone">>
    \o (IF "onFrameComplete" \in hooks THEN <<"onFrameComplete">> ELSE <<>>)
    \o <<"flip", "encode", "yield">>

FailureOf(kind) ==
    CASE kind = "updateDone" -> "updateRejected"
      [] kind = "readDone" -> "readFailed"
      [] kind = "encode" -> "encodeFailed"
      [] OTHER -> "cannot fail"

(* ---------------------------------------------------------------------- *)
(* C1                                                                     *)
(* ---------------------------------------------------------------------- *)
\* C1: whenever a run that has entered Exporting completes (normally, by an error of
\* a hook, the readback or the encode, or by return()/throw() at the yield), the
\* deck's _framebuffer then equals the value the run saved in _beginExport and
\* _originalFramebuffer is null again.
C1_RestoredOnEveryExit ==
    [][\A r \in Runs :
          (pc[r] \in ExportingPcs /\ pc'[r] = "done")
             => (deckFb' = entryFb[r] /\ originalFramebuffer' = NULL)]_vars

\* one run left Exporting by a failed readback, the other by a cancellation at the yield
C1_Witness ==
    \E r1, r2 \in Runs :
       /\ pc[r1] = "done" /\ err[r1] = "readback failed"
       /\ pc[r2] = "done" /\ err[r2] \in {"return", "throw"}
       /\ entryFb[r2] = UserFb /\ deckFb = UserFb

(* ---------------------------------------------------------------------- *)
(* C2                                                                     *)
(* ---------------------------------------------------------------------- *)
\* C2: at most one generator of the instance is Exporting at a time, so no two runs
\* are both between _beginExport and _endExport, and a second generator performs
\* no per-frame step while another one is Exporting.
C2_AtMostOneRun ==
    /\ Cardinality({r \in Runs : pc[r] \in ExportingPcs}) <= 1
    /\ Cardinality({r \in Runs : Redirected(r)}) <= 1
    /\ \A r, q \in Runs :
          (r # q /\ pc[r] \in ExportingPcs /\ pc[q] # "done") => log[q] = <<>>

\* a run is suspended at its yield while a second generator was started and rejected
C2_Witness ==
    \E r, q \in Runs :
       /\ r # q
       /\ pc[r] = "suspended"
       /\ outcome[q] = "rejected"

(* ---------------------------------------------------------------------- *)
(* C3                                                                     *)
(* ---------------------------------------------------------------------- *)
\* C3: the step by which a second renderSequence fails with 'already in progress'
\* changes nothing but that generator's own completion: _isRendering stays true,
\* _originalFramebuffer and the deck props are unchanged, no hook is invoked, and
\* the position, frame and results of the run in progress are untouched.
C3_RejectionChangesNothing ==
    [][\A q \in Runs :
          (pc[q] = "check" /\ pc'[q] = "done")
             => /\ isRendering /\ isRendering'
                /\ UNCHANGED <<originalFramebuffer, deckFb, deckOAR, pendingDraws, log,
                               yielded, frame, err, renderPromise, savedOAR, readbacks,
                               pixels, flippedPixels, entryFb>>
                /\ outcome'[q] = "rejected"
                /\ \A r \in Runs \ {q} : pc'[r] = pc[r] /\ outcome'[r] = outcome[r]]_vars

\* the run in progress completed all its frames although a second start was rejected
C3_Witness ==
    \E r, q \in Runs :
       /\ outcome[q] = "rejected"
       /\ outcome[r] = "completed"
       /\ Len(yielded[r]) = 2

(* ---------------------------------------------------------------------- *)
(* C4                                                                     *)
(* ---------------------------------------------------------------------- *)
\* C4: every run that has entered Exporting eventually leaves it with its cleanup
\* executed (deck restored, _isRendering false), whichever step fails: the update
\* hook, the render signal that never arrives, the readback or the encode.
C4_EveryRunIsCleanedUp ==
    \A r \in Runs : (pc[r] \in ExportingPcs) ~> (pc[r] = "done" /\ ~Redirected(r))

(* ---------------------------------------------------------------------- *)
(* C5                                                                     *)
(* ---------------------------------------------------------------------- *)
\* C5: once a step of frame k of a run has failed, the run only cleans up: nothing
\* is yielded for frame k or a later frame and no hook, render or readback is
\* performed for a frame after k.
C5_FailureAbortsSequence ==
    \A r \in Runs :
       Failed(r) =>
          /\ pc[r] \in {"finally", "finally2", "done"}
          /\ \A i \in 1 .. Len(yielded[r]) : yielded[r][i].frame < frame[r]
          /\ \A i \in 1 .. Len(log[r]) : log[r][i][2] <= frame[r]
          /\ ~HasEvent(r, "yield") \/ log[r][Len(log[r])][1] # "yield"
          /\ pc[r] = "done" => outcome[r] = "failed"

\* the update hook of the first of two frames rejected: the run is over, the second
\* frame was never begun
C5_Witness ==
    \E r \in Runs :
       /\ err[r] = "onUpdateFrame rejected"
       /\ pc[r] = "done"
       /\ frame[r] < opts[r].endFrame
       /\ yielded[r] = <<>>

(* ---------------------------------------------------------------------- *)
(* C6                                                                     *)
(* ---------------------------------------------------------------------- *)
\* C6: _isRendering is false in no state in which a run that entered Exporting has
\* not yet restored the deck: the finally block restores first and clears the flag
\* afterwards.
C6_IdleOnlyAfterRestore ==
    \A r \in Runs :
       /\ (pc[r] \in ExportingPcs /\ ~HasEvent(r, "endExport")) => isRendering
       /\ Redirected(r) => isRendering
       /\ HasEvent(r, "idle") => HasEvent(r, "endExport")

\* inside the finally block: the deck is restored and the flag is still set
C6_Witness ==
    \E r \in Runs :
       /\ pc[r] = "finally2"
       /\ isRendering
       /\ HasEvent(r, "endExport")
       /\ deckFb = entryFb[r]

(* ---------------------------------------------------------------------- *)
(* C7                                                                     *)
(* ---------------------------------------------------------------------- *)
\* C7: the effects of each frame of a run occur in the order onFrameStart,
\* onUpdateFrame and its completion, redirect, redraw, after-render signal, readback
\* start and end, onFrameComplete, flip, encode, yield (a failing step being the
\* last); onFrameComplete receives the buffer the readback resolved with, not the
\* flipped one, and the yielded result carries the flipped buffer and its encoding.
C7_StepOrderWithinFrame ==
    \A r \in Runs :
       /\ \A f \in 0 .. MaxFrame + 1 :
             LET ks == FrameKinds(r, f)
             IN /\ Len(ks) <= Len(ExpectedFrameSteps)
                /\ \A i \in 1 .. Len(ks) :
                      \/ ks[i] = ExpectedFrameSteps[i]
                      \/ i = Len(ks) /\ ks[i] = FailureOf(ExpectedFrameSteps[i])
       /\ \A i \in 1 .. Len(log[r]) :
             log[r][i][1] = "onFrameComplete" =>
                /\ log[r][i][3] = RawPixels
                /\ log[r][i][3] # FlippedRawPixels
       /\ \A i \in 1 .. Len(yielded[r]) :
             /\ yielded[r][i].pixels = FlippedRawPixels
             /\ yielded[r][i].exrBuffer =
                   EncodedFrame(yielded[r][i].pixels, ExporterWidth, ExporterHeight)

\* a frame went through every step, all three hooks included, and was yielded
C7_Witness ==
    \E r \in Runs :
       /\ hooks = HookNames
       /\ pc[r] = "suspended"
       /\ FrameKinds(r, frame[r]) = ExpectedFrameSteps

(* ---------------------------------------------------------------------- *)
(* C8                                                                     *)
(* ---------------------------------------------------------------------- *)
\* C8: a run that completes has yielded exactly the frames startFrame (0 when not
\* given) .. endFrame in increasing order (none when startFrame > endFrame); at any
\* time the frames yielded are consecutive from startFrame and are the frames
\* onUpdateFrame was invoked for, in the same order; and the first effect of frame
\* N+1 comes directly after the yield of frame N, all effects of a frame adjacent.
C8_FramesInOrderNotPipelined ==
    \A r \in Runs :
       LET start == StartFrameOf(opts[r])
           ys == YieldedFrames(r)
           us == UpdatedFrames(r)
           es == SelectSeq(log[r], LAMBDA e : e[1] \notin CleanupKinds)
       IN /\ outcome[r] = "completed" => ys = FrameRange(start, opts[r].endFrame)
          /\ ys = FrameRange(start, start + Len(ys) - 1)
          /\ Len(ys) > 0 => ys[Len(ys)] <= opts[r].endFrame
          /\ "onUpdateFrame" \in hooks =>
                /\ Len(us) \in {Len(ys), Len(ys) + 1}
                /\ \A i \in 1 .. Len(ys) : us[i] = ys[i]
          /\ \A j \in 1 .. Len(es) :
                IF j = 1
                THEN es[j][2] = start
                ELSE \/ es[j][2] = es[j - 1][2]
                     \/ es[j - 1][1] = "yield" /\ es[j][2] = es[j - 1][2] + 1

\* a run over two frames completed
C8_Witness ==
    \E r \in Runs :
       /\ outcome[r] = "completed"
       /\ "onUpdateFrame" \in hooks
       /\ YieldedFrames(r) = <<0, 1>>
       /\ UpdatedFrames(r) = <<0, 1>>

(* ---------------------------------------------------------------------- *)
(* C9                                                                     *)
(* ---------------------------------------------------------------------- *)
\* the bytes of the transfer buffer an output element was made of
ElementBytes(in, el) ==
    IF el[1] = "sample"
    THEN {<<"byte", el[2], el[3], el[4], k>> :
             k \in 0 .. (getBytesPerPixel(in.format) \div Channels) - 1}
    ELSE IF el[1] = "bits" THEN {el[2][k] : k \in 1 .. Len(el[2])}
    ELSE {el}

\* C9: for a region inside the texture, the buffer the WebGPU path returns has
\* width x height x 4 elements, and every element of its row r is made only of
\* logical bytes of row r of the region: no padding byte, no byte of another row,
\* no element left unwritten.
C9_WebGPUStripsPadding ==
    (rbPc = "returned" /\ rbIn.device = "webgpu" /\ InBounds(rbIn)) =>
       /\ DOMAIN rbOut.data = 0 .. RegionWidth(rbIn) * RegionHeight(rbIn) * Channels - 1
       /\ \A i \in DOMAIN rbOut.data :
             \A b \in ElementBytes(rbIn, rbOut.data[i]) :
                /\ b[1] = "byte"
                /\ b[2] = RegionY(rbIn) + (i \div (RegionWidth(rbIn) * Channels))

(* ---------------------------------------------------------------------- *)
(* C10                                                                    *)
(* ---------------------------------------------------------------------- *)
\* C10: what readPixelsAsync returns on one backend is what the other backend
\* returns for the same source, format and region inside the texture: the same
\* element kind, length, values, width, height and channel count.
C10_BackendsAgree ==
    (rbPc = "returned" /\ InBounds(rbIn)) =>
       /\ rbOut = ReadPixelsResult(rbIn, WebGLData(rbIn))
       /\ rbOut = ReadPixelsResult(rbIn, WebGPUData(rbIn))

(* ---------------------------------------------------------------------- *)
(* C11                                                                    *)
(* ---------------------------------------------------------------------- *)
\* C11: a readPixelsAsync call whose region leaves the texture issues no GPU work at
\* any point of the call: no transfer buffer and no temporary framebuffer is
\* created, no copy is submitted and no pixel transfer is performed.
C11_OutOfBoundsIssuesNoGpuWork ==
    ~InBounds(rbIn) =>
       /\ rbOps = <<>>
       /\ rbBuffer = "none"
       /\ rbTempFb = "none"

(* ---------------------------------------------------------------------- *)
(* C12                                                                    *)
(* ---------------------------------------------------------------------- *)
\* C12: when readPixelsAsync has returned to its caller, by resolving or by
\* rejecting, no transfer buffer it created is left alive: the buffer was unmapped
\* and destroyed.
C12_TransferBufferReleasedOnReturn ==
    rbPc \in {"returned", "threw"} => rbBuffer \in {"none", "destroyed"}

(* ---------------------------------------------------------------------- *)
(* C13                                                                    *)
(* ---------------------------------------------------------------------- *)
\* C13: a temporary framebuffer exists only on the WebGL path for a bare texture; the
\* call destroys no framebuffer but the temporary ones it created; and when the
\* call has returned, by resolving or by throwing, the temporary framebuffer has
\* been destroyed.
C13_OnlyTemporaryFramebufferDestroyed ==
    /\ rbTempFb # "none" => (rbIn.device = "webgl" /\ rbIn.source = "texture")
    /\ Cardinality({i \in 1 .. Len(rbOps) : rbOps[i][1] = "destroyFramebuffer"})
          <= Cardinality({i \in 1 .. Len(rbOps) : rbOps[i][1] = "createFramebuffer"})
    /\ Cardinality({i \in 1 .. Len(rbOps) : rbOps[i][1] = "destroyFramebuffer"})
          = (IF rbTempFb = "destroyed" THEN 1 ELSE 0)
    /\ rbPc \in {"returned", "threw"} => rbTempFb \in {"none", "destroyed"}

(* ---------------------------------------------------------------------- *)
(* C14                                                                    *)
(* ---------------------------------------------------------------------- *)
\* the positions in the log of task t of the events of one kind for frame n
EventsAt(t, kind, n) == {i \in 1 .. Len(log[t]) : log[t][i] = <<kind, n>>}

\* C14: for every frame of a renderSequence run or a renderFrame call at most one
\* readback of the HDR target is started, also when the deck signals after-render
\* again before the first readback has resolved, and no readback is started for a
\* frame after a readback of that frame has failed.
C14_OneReadbackPerFrame ==
    \A t \in Tasks, n \in 0 .. MaxFrame + 1 :
       /\ Cardinality(EventsAt(t, "readStart", n)) <= 1
       /\ \A i \in EventsAt(t, "readFailed", n), j \in EventsAt(t, "readStart", n) : j < i

(* ---------------------------------------------------------------------- *)
(* C15                                                                    *)
(* ---------------------------------------------------------------------- *)
CallbackKinds == {"afterRender", "readStart", "readDone", "readFailed"}

\* the kinds of the effects renderFrame itself had for its frame, in order
RenderFrameKinds(f) ==
    LET es == SelectSeq(log[f], LAMBDA e : e[1] \notin CallbackKinds)
    IN [i \in 1 .. Len(es) |-> es[i][1]]

\* the steps of renderFrame in the order of the pipeline, for the hooks supplied
ExpectedRenderFrameSteps ==
    (IF "onFrameStart" \in hooks THEN <<"onFrameStart">> ELSE <<>>)
    \o (IF "onUpdateFrame" \in hooks THEN <<"onUpdateFrame", "updateDone">> ELSE <<>>)
    \o <<"redirect", "redraw">>
    \o (IF "onFrameComplete" \in hooks THEN <<"onFrameComplete">> ELSE <<>>)
    \o <<"flip", "encode">>

RenderFrameFailures ==
    {"onFrameStart threw", "onUpdateFrame threw", "onUpdateFrame rejected",
     "readback failed", "onFrameComplete threw", "encode failed"}

\* C15: the effects of a renderFrame call occur in the order onFrameStart,
\* onUpdateFrame and its completion, redirect and redraw, (readback,)
\* onFrameComplete with the buffer the readback resolved with, flip, encode; the
\* call returns the encoding of the flipped buffer; it is rejected only by a failure
\* of one of these steps, never because a run is active; and no step of renderFrame
\* changes _isRendering or _originalFramebuffer, changes the position or the
\* outcome of a renderSequence run, or takes the deck's framebuffer away from the
\* HDR target.
C15_RenderFrameNoBookkeeping ==
    /\ [](\A f \in Frames :
             LET ks == RenderFrameKinds(f)
             IN /\ Len(ks) <= Len(ExpectedRenderFrameSteps)
                /\ \A i \in 1 .. Len(ks) :
                      \/ ks[i] = ExpectedRenderFrameSteps[i]
                      \/ i = Len(ks) /\ ks[i] = FailureOf(ExpectedRenderFrameSteps[i])
                /\ \A i \in 1 .. Len(log[f]) :
                      log[f][i][1] = "onFrameComplete" =>
                         /\ log[f][i][3] = RawPixels
                         /\ \E j \in 1 .. i - 1 : log[f][j][1] = "readDone"
                /\ outcome[f] = "rejected" => err[f] \in RenderFrameFailures
                /\ outcome[f] = "returned" =>
                      /\ ks = ExpectedRenderFrameSteps
                      /\ yielded[f] = <<[frame |-> frame[f],
                                         exrBuffer |-> EncodedFrame(FlippedRawPixels,
                                                          ExporterWidth, ExporterHeight)]>>)
    /\ [][\A f \in Frames :
             pc'[f] # pc[f] =>
                /\ UNCHANGED <<isRendering, originalFramebuffer, entryFb>>
                /\ \A r \in Runs : UNCHANGED <<pc[r], err[r], outcome[r], yielded[r]>>
                /\ deckFb' = deckFb \/ deckFb' = HdrFb]_vars

\* a renderFrame call with all hooks supplied was started while a run was exporting
\* and has returned its frame, the run still being in progress
C15_Witness ==
    \E f \in Frames, r \in Runs :
       /\ hooks = HookNames
       /\ outcome[f] = "returned"
       /\ pc[r] \in ExportingPcs
       /\ isRendering
       /\ deckFb = HdrFb
       /\ \E i \in 1 .. Len(log[r]) : log[r][i][1] = "beginExport"
       /\ originalFramebuffer = UserFb

(* ---------------------------------------------------------------------- *)
(* C16                                                                    *)
(* ---------------------------------------------------------------------- *)
\* the buffer holds exactly width x height x channels samples
FlipWellFormed(in) == Length(in.data) = in.width * in.height * FlipChannels(in)

\* C16: for any buffer b, 8-bit or floating-point, and any width, height and
\* channels, flipping b and flipping the result again with the same arguments
\* returns a buffer of b's type that equals b element for element.
C16_FlipIsInvolution ==
    flipCall.pc = "flippedTwice" =>
       /\ flipCall.twice.kind = flipCall.in.kind
       /\ flipCall.twice.data = flipCall.in.data

(* ---------------------------------------------------------------------- *)
(* C17                                                                    *)
(* ---------------------------------------------------------------------- *)
\* C17: when flipPixelsVertically returns, its result is a new buffer of the type
\* and length of the input in which row height-1-i holds the samples of row i of
\* the input, in the same order, for every 0 <= i < height (a row being
\* width x channels samples); the input buffer is as it was; and the call returns
\* for every buffer that holds at least width x height x channels samples.
C17_FlipReversesRows ==
    /\ (flipCall.pc = "call"
          /\ Length(flipCall.in.data)
                >= flipCall.in.width * flipCall.in.height * FlipChannels(flipCall.in))
          => ~FlipCall(flipCall.in.data, flipCall.in.width, flipCall.in.height,
                       FlipChannels(flipCall.in)).threw
    /\ flipCall.pc \in {"flipped", "flippedTwice", "threwTwice"} =>
          LET in == flipCall.in
              out == flipCall.once
              rowSize == in.width * FlipChannels(in)
          IN /\ out.kind = in.kind
             /\ DOMAIN out.data = DOMAIN in.data
             /\ flipCall.dataAfter = in.data
             /\ \A i \in 0 .. in.height - 1, k \in 0 .. rowSize - 1 :
                   (i * rowSize + k) \in DOMAIN in.data =>
                      /\ ((in.height - 1 - i) * rowSize + k) \in DOMAIN out.data
                      /\ out.data[(in.height - 1 - i) * rowSize + k] = in.data[i * rowSize + k]

\* a floating-point image of three rows of two distinct samples each was flipped
C17_Witness ==
    /\ flipCall.pc = "flipped"
    /\ flipCall.in.kind = "Float32Array"
    /\ flipCall.in.height = 3
    /\ flipCall.in.width * FlipChannels(flipCall.in) = 2
    /\ FlipWellFormed(flipCall.in)
    /\ flipCall.in.data[0] = 1
    /\ flipCall.once.data[4] = 1

(* ---------------------------------------------------------------------- *)
(* C18                                                                    *)
(* ---------------------------------------------------------------------- *)
\* the operations of one kind the exporter has issued
ExporterOps(kind) == {i \in 1 .. Len(exporter.ops) : exporter.ops[i][1] = kind}

\* C18: when the device does not report the requested format (rgba16float when
\* props.format is absent) as renderable, the constructor throws and has created no
\* texture and no framebuffer; otherwise it has created exactly one texture of
\* that format and one framebuffer with a depth16unorm attachment, both of the
\* requested size.
C18_ConstructorChecksCapabilityFirst ==
    LET requested == IF exporter.props.format = <<>> THEN "rgba16float"
                     ELSE exporter.props.format[1]
    IN /\ exporter.pc = "failed" =>
             /\ requested \notin exporter.device.renderable
             /\ exporter.ops = <<>>
       /\ exporter.pc = "ready" =>
             /\ requested \in exporter.device.renderable
             /\ exporter.format = requested
             /\ exporter.ops[1] = <<"createTexture", requested, exporter.props.size>>
             /\ exporter.ops[2] = <<"createFramebuffer", "depth16unorm", exporter.props.size>>
             /\ Cardinality(ExporterOps("createTexture")) = 1
             /\ Cardinality(ExporterOps("createFramebuffer")) = 1
             /\ exporter.texture.format = requested
             /\ exporter.framebuffer.depth = "depth16unorm"

\* construction without a format failed on a device that renders rgba32float only
C18_Witness ==
    /\ exporter.pc = "failed"
    /\ exporter.props.format = <<>>
    /\ exporter.device.renderable = {"rgba32float"}

(* ---------------------------------------------------------------------- *)
(* C19                                                                    *)
(* ---------------------------------------------------------------------- *)
\* C19: on a WebGPU device a call of readPixels or readPixelsFlipped throws, issues
\* no device operation, returns no data and leaves the exporter's size, format,
\* texture and framebuffer as they were.
C19_SyncReadFailsOnWebGPU ==
    [][(/\ exporter.pc = "ready"
        /\ exporter.device.type = "webgpu"
        /\ exporter'.calls = exporter.calls + 1
        /\ exporter'.last.call \in {"readPixels", "readPixelsFlipped"})
          => /\ exporter'.last = [call |-> exporter'.last.call, threw |-> TRUE]
             /\ exporter' = [exporter EXCEPT !.calls = exporter'.calls,
                                             !.last = exporter'.last]]_vars

\* readPixelsFlipped was called on a WebGPU exporter and threw
C19_Witness ==
    /\ exporter.pc = "ready"
    /\ exporter.device.type = "webgpu"
    /\ exporter.last.call = "readPixelsFlipped"
    /\ exporter.last.threw

(* ---------------------------------------------------------------------- *)
(* C20                                                                    *)
(* ---------------------------------------------------------------------- *)
\* C20: a resize(w, h) with the current dimensions changes nothing and issues no
\* framebuffer resize; any other resize issues exactly one framebuffer resize to
\* (w, h), makes width and height w and h and leaves the format as it was; and at
\* all times the exporter's width and height are the dimensions of its
\* framebuffer, and every flip of read pixels uses them.
C20_ResizeKeepsDimensionsInStep ==
    /\ [](exporter.pc = "ready" =>
             /\ exporter.size = exporter.framebuffer.size
             /\ exporter.format = exporter.texture.format
             /\ (exporter.last.call \in {"readPixelsFlipped", "readPixelsFlippedAsync resumed"}
                   /\ ~exporter.last.threw)
                   => exporter.last.result.flippedAs = <<exporter.framebuffer.size>>)
    /\ [][(/\ exporter.pc = "ready"
           /\ exporter'.calls = exporter.calls + 1
           /\ exporter'.last.call = "resize")
             => IF exporter'.last.size = exporter.size
                THEN exporter' = [exporter EXCEPT !.calls = exporter'.calls,
                                                  !.last = exporter'.last]
                ELSE /\ exporter'.ops = Append(exporter.ops,
                                               <<"framebuffer.resize", exporter'.last.size>>)
                     /\ exporter'.size = exporter'.last.size
                     /\ exporter'.framebuffer.size = exporter'.last.size
                     /\ exporter'.format = exporter.format
                     /\ exporter'.texture.format = exporter.texture.format]_vars

\* three resize calls of which one had the current dimensions: two framebuffer
\* resizes were issued and the target is now 2 x 2
C20_Witness ==
    /\ exporter.pc = "ready"
    /\ exporter.props.size = <<1, 1>>
    /\ exporter.calls = 3
    /\ exporter.last.call = "resize"
    /\ Cardinality(ExporterOps("framebuffer.resize")) = 2
    /\ Len(exporter.ops) = 4
    /\ exporter.size = <<2, 2>>

(* ---------------------------------------------------------------------- *)
(* C26                                                                    *)
(* ---------------------------------------------------------------------- *)
\* C26: while a run is suspended at its yield the loop is Exporting: _isRendering
\* is true, the deck's _framebuffer is the HDR target and _originalFramebuffer
\* still holds the value the run saved; a renderSequence generator started
\* meanwhile ends rejected and enters nothing; and the deck's _framebuffer leaves
\* the HDR target only by the _endExport of a generator's finally block.
C26_SuspendedRunStaysExporting ==
    /\ [](\A r \in Runs :
             pc[r] = "suspended" =>
                /\ isRendering
                /\ deckFb = HdrFb
                /\ originalFramebuffer = entryFb[r]
                /\ ~HasEvent(r, "endExport"))
    /\ [][/\ \A r, q \in Runs :
               (pc[r] = "suspended" /\ pc[q] = "check" /\ pc'[q] # "check")
                  => (pc'[q] = "done" /\ outcome'[q] = "rejected" /\ pc'[r] = "suspended")
          /\ (deckFb = HdrFb /\ deckFb' # HdrFb)
                => \E r \in Runs : pc[r] = "finally" /\ pc'[r] = "finally2"]_vars

\* a run that saved the user's framebuffer is suspended after its first frame with
\* a later frame still to come, and a generator started meanwhile was rejected
C26_Witness ==
    \E r, q \in Runs :
       /\ r # q
       /\ pc[r] = "suspended"
       /\ frame[r] < opts[r].endFrame
       /\ entryFb[r] = UserFb
       /\ outcome[q] = "rejected"
       /\ deckFb = HdrFb

(* ---------------------------------------------------------------------- *)
(* C27                                                                    *)
(* ---------------------------------------------------------------------- *)
\* C27: when the promise of _renderToHDR has settled, resolved or rejected, the
\* deck's onAfterRender is the value _renderToHDR found when it was called; and
\* when every generator that ran has completed, the deck's onAfterRender is the
\* user's callback again.
C27_CallbackRestoredWhenSettled ==
    /\ \A r \in Runs :
          (pc[r] = "awaitRender" /\ renderPromise[r] \in {"resolved", "rejected"})
             => deckOAR = savedOAR[r]
    /\ (\A r \in Runs : pc[r] \in {"none", "created", "done"}) => deckOAR = UserCallback

(* ---------------------------------------------------------------------- *)
(* C28                                                                    *)
(* ---------------------------------------------------------------------- *)
\* C28: when a renderFrame call has completed and no renderSequence generator was
\* ever started, the deck's _framebuffer is the value it had before the call.
C28_RenderFrameRestoresFramebuffer ==
    \A f \in Frames :
       (pc[f] = "done" /\ \A r \in Runs : pc[r] \in {"none", "created"})
          => deckFb = UserFb

(* ---------------------------------------------------------------------- *)
(* C24, C25                                                               *)
(* ---------------------------------------------------------------------- *)
Float32(sign, exp, mant) == [sign |-> sign, exp |-> exp, mant |-> mant]

\* C24: floatToHalf returns 0x0000 for 0.0, 0x8000 for -0.0, 0x3C00 for 1.0, 0x7BFF
\* for 65504.0, 0x7C00 for 70000.0 and for +infinity, signed infinity for every
\* finite value whose rebiased exponent exceeds 30, 0x0001 for 2^-24 and signed zero
\* for every value whose rebiased exponent is below -10; the result is a 16-bit
\* value whose sign bit is the sign bit of the binary32 converted.
C24_HalfBoundaryValues ==
    half.pc = "returned" =>
       LET v == half.value
           signed(h) == (half.bits.sign * 32768) + h
       IN  /\ v = Float32(0, 0, 0) => half.result = 0
           /\ v = Float32(1, 0, 0) => half.result = 32768
           /\ v = Float32(0, 127, 0) => half.result = 15360
           /\ v = Float32(0, 142, 8380416) => half.result = 31743
           /\ v = Float32(0, 143, 571392) => half.result = 31744
           /\ v = Float32(0, 255, 0) => half.result = 31744
           /\ v = Float32(0, 103, 0) => half.result = 1
           /\ (v.exp < 255 /\ v.exp - 127 + 15 > 30) => half.result = signed(31744)
           /\ v.exp - 127 + 15 < -10 => half.result = signed(0)
           /\ half.result \in 0 .. 65535
           /\ half.result \div 32768 = half.bits.sign

\* 65504.0, the largest finite half, was converted to 0x7BFF
C24_Witness ==
    /\ half.pc = "returned"
    /\ half.value = Float32(0, 142, 8380416)
    /\ half.result = 31743

\* C25: for a stored binary32 whose exponent field is all ones the half returned
\* has all five exponent bits set, and its mantissa is zero exactly when the
\* binary32 is an infinity: a NaN never becomes the half infinity pattern.
C25_NaNStaysNaN ==
    (half.pc = "returned" /\ half.bits.exp = 255) =>
       /\ (half.result \div 1024) % 32 = 31
       /\ (half.result % 1024 = 0) <=> (half.bits.mant = 0)

(* ---------------------------------------------------------------------- *)
(* C21, C22, C23                                                          *)
(* ---------------------------------------------------------------------- *)
\* the n bytes of a buffer from byte position p
BytesAt(buffer, p, n) == SubSeq(buffer, p + 1, p + n)

ExrChannelsGiven == OrDefault(exr.in.options.channels, <<ChannelName.R, ChannelName.G, ChannelName.B, ChannelName.A>>)

ExrSampleSize == IF exr.in.options.pixelType = <<"float">> THEN 4 ELSE 2

ExrValidArguments == exr.in.width >= 1 /\ exr.in.height >= 1 /\ Len(ExrChannelsGiven) >= 1

\* C21: a writeEXR call with valid arguments returns a buffer, and in every buffer
\* writeEXR returns entry i of the offset table is the byte position where record
\* i was written (high 32 bits zero), record i starts with the int32 i and the
\* uint32 width x channel count x sample size, exactly that many payload bytes were
\* written for it, and the last byte written is the last byte of the buffer.
C21_OffsetTableMatchesRecords ==
    exr.pc = "returned" =>
       /\ ExrValidArguments => exr.out.threw = "none"
       /\ exr.out.threw = "none" =>
             LET out == exr.out
                 rows == Len(out.recordStarts)
                 length == exr.in.width * Len(ExrChannelsGiven) * ExrSampleSize
                 endOf(i) == IF i < rows THEN out.recordStarts[i + 1] ELSE out.offset
             IN  /\ exr.in.height >= 0 => rows = exr.in.height
                 /\ \A i \in 1 .. rows :
                       /\ BytesAt(out.buffer, out.offsetTableStart + 8 * (i - 1), 8)
                             = Int32LE(out.recordStarts[i]) \o <<0, 0, 0, 0>>
                       /\ BytesAt(out.buffer, out.recordStarts[i], 4) = Int32LE(i - 1)
                       /\ BytesAt(out.buffer, out.recordStarts[i] + 4, 4) = Int32LE(length)
                       /\ endOf(i) - (out.recordStarts[i] + 8) = length
                 /\ out.offset = Len(out.buffer)

\* a 2 x 2 image was written as float with the channels B, G, R given: the second
\* record starts 8 + 24 bytes after the first
C21_Witness ==
    /\ exr.pc = "returned"
    /\ exr.in.width = 2
    /\ exr.in.height = 2
    /\ exr.in.options.pixelType = <<"float">>
    /\ Len(ExrChannelsGiven) = 3
    /\ exr.out.threw = "none"
    /\ exr.out.recordStarts[2] = exr.out.recordStarts[1] + 32

\* C22: a writeEXR call whose width or height is zero or negative, or whose
\* channel list is empty, throws before the output buffer is allocated and
\* returns no buffer.
C22_InvalidArgumentsFailEarly ==
    (exr.pc = "returned" /\ ~ExrValidArguments) =>
       (exr.out.threw # "none" /\ ~exr.out.allocated)

\* the channels of the list in alphabetical order
ExrAlphabetical ==
    SelectSeq(<<ChannelName.A, ChannelName.B, ChannelName.G, ChannelName.R>>,
              LAMBDA c : \E i \in 1 .. Len(ExrChannelsGiven) : ExrChannelsGiven[i] = c)

\* R=0, G=1, B=2, A=3
ExrInputIndex(c) == CASE c = ChannelName.R -> 0 [] c = ChannelName.G -> 1 [] c = ChannelName.B -> 2
                      [] c = ChannelName.A -> 3

ExrConversion(value) ==
    IF ExrSampleSize = 2 THEN Uint16LE(floatToHalf(Int32Bits(value))) ELSE Float32LE(value)

\* C23: in every record of a buffer writeEXR returns for channels among R, G, B, A
\* the payload holds the channels in alphabetical order, each channel's width
\* samples contiguous in x order, sample x of channel c in record y being the
\* conversion of input element (y x width + x) x 4 + index(c); and the 4 x 4 solid
\* red image written as half has, in each of its 4 records in increasing y,
\* A = 0x3C00, B = 0x0000, G = 0x0000, R = 0x3C00 for all four samples.
C23_ChannelsAlphabeticalPerRecord ==
    (/\ exr.pc = "returned"
     /\ exr.out.threw = "none"
     /\ \A i \in 1 .. Len(ExrChannelsGiven) :
           ExrChannelsGiven[i] \in {ChannelName.R, ChannelName.G, ChannelName.B, ChannelName.A})
    => LET in == exr.in
           out == exr.out
       IN  /\ \A y \in 0 .. in.height - 1 :
                \A k \in 1 .. Len(ExrAlphabetical) :
                   \A x \in 0 .. in.width - 1 :
                      BytesAt(out.buffer,
                              out.recordStarts[y + 1] + 8 + ((k - 1) * in.width + x) * ExrSampleSize,
                              ExrSampleSize)
                         = ExrConversion(in.pixels[(y * in.width + x) * 4
                                                      + ExrInputIndex(ExrAlphabetical[k]) + 1])
           /\ (in.width = 4 /\ in.height = 4) =>
                 \A y \in 0 .. 3 :
                    /\ BytesAt(out.buffer, out.recordStarts[y + 1], 4) = <<y, 0, 0, 0>>
                    /\ BytesAt(out.buffer, out.recordStarts[y + 1] + 8, 32)
                          = Concat([i \in 1 .. 16 |->
                                      IF i <= 4 \/ i > 12 THEN <<0, 60>> ELSE <<0, 0>>])
                    /\ y > 0 => out.recordStarts[y + 1] > out.recordStarts[y]

\* the 4 x 4 solid red image was written: the last sample of the last record is
\* the R of pixel (3, 3)
C23_Witness ==
    /\ exr.pc = "returned"
    /\ exr.in.width = 4
    /\ exr.in.height = 4
    /\ exr.out.threw = "none"
    /\ BytesAt(exr.out.buffer, exr.out.offset - 2, 2) = <<0, 60>>
    /\ BytesAt(exr.out.buffer, exr.out.recordStarts[4], 4) = <<3, 0, 0, 0>>

(* ---------------------------------------------------------------------- *)
(* C29                                                                    *)
(* ---------------------------------------------------------------------- *)
\* C29: over any sequence of createTexture and destroyTexture calls a texture is
\* deleted only on the request of the owner createTexture created it for, and at
\* most once; a Texture passed in as the image is returned as is, leaves the
\* table unchanged and is never deleted; and a destroyTexture call by an owner
\* other than the creator deletes nothing and leaves the table unchanged.
C29_OnlyCreatorDeletesOnce ==
    textures.pc = "live" =>
       /\ \A t \in 1 .. Len(textures.objs) :
             /\ Len(textures.objs[t].deletedBy) <= 1
             /\ \A i \in 1 .. Len(textures.objs[t].deletedBy) :
                   textures.objs[t].deletedBy[i] = textures.objs[t].origin
       /\ (textures.last.call = "createTexture" /\ textures.last.image = "texture")
             => /\ textures.last.returned = textures.last.passed
                /\ textures.internalTextures = textures.last.table
       /\ (/\ textures.last.call = "destroyTexture"
           /\ textures.last.texture # 0
           /\ textures.objs[textures.last.texture].origin # textures.last.owner)
             => /\ ~textures.last.deleted
                /\ textures.internalTextures = textures.last.table

====
